---- MODULE Spec2Model ----
(***************************************************************************)
(* Model of the CSV ingestion consumer of the product management portal    *)
(* backend (lambda_process_s3_file/lambda_process_s3.py): the validator,   *)
(* the row loop, the job status tracker and the SQS batch handler.          *)
(*                                                                         *)
(* Python values are tagged records:                                       *)
(*   None            [t |-> "none"]                                        *)
(*   str             [t |-> "str",   s |-> <<"R","e","d">>]                *)
(*   int             [t |-> "int",   i |-> 42]                             *)
(*   float           [t |-> "float", m |-> 425, e |-> -1]   (m * 10^e)     *)
(*   float inf/nan   [t |-> "special", k |-> "inf" | "-inf" | "nan"]       *)
(*   list of str     [t |-> "list",  l |-> << <<"A">>, <<"C">> >>]         *)
(* A string is a sequence of one-character strings.                        *)
(***************************************************************************)
EXTENDS Integers, Sequences, FiniteSets, TLC

\* ------------------------------------------------------------------------
\* Python values and string functions used by validate_value
\* ------------------------------------------------------------------------

PyNone == [t |-> "none"]

PyStr(s) == [t |-> "str", s |-> s]

PyInt(i) == [t |-> "int", i |-> i]

PyFloat(m, e) == [t |-> "float", m |-> m, e |-> e]

PySpecial(k) == [t |-> "special", k |-> k]

PyList(l) == [t |-> "list", l |-> l]

\* str.strip() with no argument strips these (blank, tab, newline, CR)
Whitespace == {" ", "\t", "\n", "\r"}

RECURSIVE LStrip(_)
LStrip(s) == IF s # <<>> /\ Head(s) \in Whitespace THEN LStrip(Tail(s)) ELSE s

RECURSIVE RStrip(_)
RStrip(s) == IF s # <<>> /\ s[Len(s)] \in Whitespace THEN RStrip(SubSeq(s, 1, Len(s) - 1)) ELSE s

Strip(s) == RStrip(LStrip(s))

\* str.split(sep): the pieces between the separators, empty pieces kept
RECURSIVE SplitFrom(_, _, _)
SplitFrom(s, sep, cur) ==
    IF s = <<>> THEN <<cur>>
    ELSE IF Head(s) = sep THEN <<cur>> \o SplitFrom(Tail(s), sep, <<>>)
    ELSE SplitFrom(Tail(s), sep, Append(cur, Head(s)))

Split(s, sep) == SplitFrom(s, sep, <<>>)

\* [v.strip() for v in pieces]
StripAll(xs) == [k \in 1..Len(xs) |-> Strip(xs[k])]

InSeq(x, xs) == \E k \in 1..Len(xs) : xs[k] = x

\* ------------------------------------------------------------------------
\* float(): the literals Python's float() accepts over this alphabet
\* ------------------------------------------------------------------------

Digits == {"0", "1", "2", "3", "4", "5", "6", "7", "8", "9"}

DigitVal(c) == CASE c = "0" -> 0 [] c = "1" -> 1 [] c = "2" -> 2 [] c = "3" -> 3 [] c = "4" -> 4
                 [] c = "5" -> 5 [] c = "6" -> 6 [] c = "7" -> 7 [] c = "8" -> 8 [] c = "9" -> 9

LowerChar(c) == CASE c = "I" -> "i" [] c = "N" -> "n" [] c = "F" -> "f" [] c = "A" -> "a"
                  [] c = "T" -> "t" [] c = "Y" -> "y" [] c = "E" -> "e" [] OTHER -> c

Lower(s) == [k \in 1..Len(s) |-> LowerChar(s[k])]

AllDigits(s) == \A k \in 1..Len(s) : s[k] \in Digits

RECURSIVE DigitsVal(_, _)
DigitsVal(s, acc) == IF s = <<>> THEN acc ELSE DigitsVal(Tail(s), 10 * acc + DigitVal(Head(s)))

\* position of the first element of s that is in set cs, or 0
FirstIn(s, cs) == IF \E k \in 1..Len(s) : s[k] \in cs THEN CHOOSE k \in 1..Len(s) : s[k] \in cs /\ \A q \in 1..(k - 1) : s[q] \notin cs ELSE 0

Signed(s) == s # <<>> /\ Head(s) \in {"+", "-"}

SignOf(s) == IF s # <<>> /\ Head(s) = "-" THEN -1 ELSE 1

Unsigned(s) == IF Signed(s) THEN Tail(s) ELSE s

\* mantissa part "ddd", "ddd.", "ddd.ddd", ".ddd" (at least one digit)
MantissaOk(s) ==
    LET p == FirstIn(s, {"."})
        ip == IF p = 0 THEN s ELSE SubSeq(s, 1, p - 1)
        fp == IF p = 0 THEN <<>> ELSE SubSeq(s, p + 1, Len(s))
    IN AllDigits(ip) /\ AllDigits(fp) /\ Len(ip) + Len(fp) > 0

\* exponent part after the e: optional sign and at least one digit
ExponentOk(s) == Unsigned(s) # <<>> /\ AllDigits(Unsigned(s))

\* the finite literal: [sign] mantissa [e exponent]
FiniteOk(s) ==
    LET u == Unsigned(s)
        p == FirstIn(u, {"e", "E"})
    IN IF p = 0 THEN MantissaOk(u)
       ELSE MantissaOk(SubSeq(u, 1, p - 1)) /\ ExponentOk(SubSeq(u, p + 1, Len(u)))

SpecialWords == {<<"i", "n", "f">>, <<"i", "n", "f", "i", "n", "i", "t", "y">>, <<"n", "a", "n">>}

SpecialOk(s) == Lower(Unsigned(s)) \in SpecialWords

\* float(s) raises ValueError exactly when this is false
FloatOk(s) == FiniteOk(s) \/ SpecialOk(s)

RECURSIVE Normalize(_, _)
Normalize(m, e) == IF m = 0 THEN PyFloat(0, 0) ELSE IF m % 10 = 0 THEN Normalize(m \div 10, e + 1) ELSE PyFloat(m, e)

\* the value of an accepted literal, as mantissa * 10^exponent with no trailing zero
FloatValue(s) ==
    IF SpecialOk(s)
    THEN PySpecial(IF Lower(Unsigned(s)) = <<"n", "a", "n">> THEN "nan" ELSE IF SignOf(s) = -1 THEN "-inf" ELSE "inf")
    ELSE LET u == Unsigned(s)
             pe == FirstIn(u, {"e", "E"})
             mant == IF pe = 0 THEN u ELSE SubSeq(u, 1, pe - 1)
             expo == IF pe = 0 THEN <<"0">> ELSE SubSeq(u, pe + 1, Len(u))
             pd == FirstIn(mant, {"."})
             ip == IF pd = 0 THEN mant ELSE SubSeq(mant, 1, pd - 1)
             fp == IF pd = 0 THEN <<>> ELSE SubSeq(mant, pd + 1, Len(mant))
         IN Normalize(SignOf(s) * DigitsVal(ip \o fp, 0), SignOf(expo) * DigitsVal(Unsigned(expo), 0) - Len(fp))

\* float.is_integer(): false for inf and nan
IsInteger(f) == f.t = "float" /\ f.e >= 0

RECURSIVE Pow10(_)
Pow10(n) == IF n = 0 THEN 1 ELSE 10 * Pow10(n - 1)

\* the largest power of ten int(f) is written out for
MaxPow == 6

\* int(f) for an integral float; a larger one is kept as mantissa and exponent
ToInt(f) == IF f.e <= MaxPow THEN PyInt(f.m * Pow10(f.e)) ELSE [t |-> "int", m |-> f.m, e |-> f.e]

\* ------------------------------------------------------------------------
\* Attribute definitions and validate_value
\* ------------------------------------------------------------------------

SHORT_TEXT_MAX_LENGTH == 50

\* attr_def.get('options', [])
OptionsOf(attr_def) == IF "options" \in DOMAIN attr_def THEN attr_def.options ELSE <<>>

\* attr_def.get('isRequired', False)
\* is_required read as False whatever the definition says
IsRequired_Never(attr_def) == FALSE

IsRequired(attr_def) == IF "isRequired" \in DOMAIN attr_def THEN attr_def.isRequired ELSE FALSE

\* attr_def.get('name', header_name)
AttrName(attr_def, header_name) == IF "name" \in DOMAIN attr_def THEN attr_def.name ELSE header_name

\* the error message with the 0-based index of the row in place of row_number+1
ErrMsg_ZeroBased(row, col, kind, detail) == [row |-> row - 1, col |-> col, kind |-> kind, detail |-> detail]

\* an error message "Row <row>, Column '<col>': <kind> ..." with the values it interpolates
ErrMsg(row, col, kind, detail) == [row |-> row, col |-> col, kind |-> kind, detail |-> detail]

NoErr == [kind |-> "none"]

Result(ok, value, err) == [ok |-> ok, value |-> value, err |-> err]

\* the test of line 108 without strip(): only None and the empty string are blank
IsBlank_NoStrip(cell) == cell.t = "none" \/ cell.s = <<>>

IsBlank(cell) == cell.t = "none" \/ Strip(cell.s) = <<>>

NonEmpty(s) == s # <<>>

\* multiple_select with the empty pieces kept in selected_values (line 125 without its filter)
ValidateMultipleSelect_KeepsEmpty(cleaned, attr_name, attr_def, row_number) ==
    LET options == OptionsOf(attr_def)
        selected_values == StripAll(Split(cleaned, ";"))
        NotAllowed(sv) == ~InSeq(sv, options)
        invalid_selections == SelectSeq(selected_values, NotAllowed)
    IN IF options = <<>> THEN Result(FALSE, PyStr(cleaned), ErrMsg(row_number + 1, attr_name, "no_options", PyNone))
       ELSE IF selected_values = <<>> /\ IsRequired(attr_def) THEN Result(FALSE, PyStr(cleaned), ErrMsg(row_number + 1, attr_name, "value_required", PyNone))
       ELSE IF invalid_selections # <<>> THEN Result(FALSE, PyList(selected_values), ErrMsg(row_number + 1, attr_name, "values_not_allowed", PyList(invalid_selections)))
       ELSE Result(TRUE, PyList(selected_values), NoErr)

ValidateMultipleSelect(cleaned, attr_name, attr_def, row_number) ==
    LET options == OptionsOf(attr_def)
        selected_values == SelectSeq(StripAll(Split(cleaned, ";")), NonEmpty)
        NotAllowed(sv) == ~InSeq(sv, options)
        invalid_selections == SelectSeq(selected_values, NotAllowed)
    IN IF options = <<>> THEN Result(FALSE, PyStr(cleaned), ErrMsg(row_number + 1, attr_name, "no_options", PyNone))
       ELSE IF selected_values = <<>> /\ IsRequired(attr_def) THEN Result(FALSE, PyStr(cleaned), ErrMsg(row_number + 1, attr_name, "value_required", PyNone))
       ELSE IF invalid_selections # <<>> THEN Result(FALSE, PyList(selected_values), ErrMsg(row_number + 1, attr_name, "values_not_allowed", PyList(invalid_selections)))
       ELSE Result(TRUE, PyList(selected_values), NoErr)

ValidateNumber(cleaned, attr_name, attr_def, row_number) ==
    IF FloatOk(cleaned)
    THEN LET num_value == FloatValue(cleaned) IN Result(TRUE, IF IsInteger(num_value) THEN ToInt(num_value) ELSE num_value, NoErr)
    ELSE Result(FALSE, PyStr(cleaned), ErrMsg(row_number + 1, attr_name, "not_a_number", PyStr(cleaned)))

\* single_select without the test of line 119: a definition with no options accepts nothing and rejects nothing
ValidateSingleSelect_NoOptionsAccepts(cleaned, attr_name, attr_def, row_number) ==
    IF OptionsOf(attr_def) # <<>> /\ ~InSeq(cleaned, OptionsOf(attr_def)) THEN Result(FALSE, PyStr(cleaned), ErrMsg(row_number + 1, attr_name, "not_in_options", PyStr(cleaned)))
    ELSE Result(TRUE, PyStr(cleaned), NoErr)

ValidateSingleSelect(cleaned, attr_name, attr_def, row_number) ==
    IF OptionsOf(attr_def) = <<>> THEN Result(FALSE, PyStr(cleaned), ErrMsg(row_number + 1, attr_name, "no_options", PyNone))
    ELSE IF ~InSeq(cleaned, OptionsOf(attr_def)) THEN Result(FALSE, PyStr(cleaned), ErrMsg(row_number + 1, attr_name, "not_in_options", PyStr(cleaned)))
    ELSE Result(TRUE, PyStr(cleaned), NoErr)

ValidateShortText(cleaned, attr_name, attr_def, row_number) ==
    IF Len(cleaned) > SHORT_TEXT_MAX_LENGTH THEN Result(FALSE, PyStr(cleaned), ErrMsg(row_number + 1, attr_name, "too_long", PyNone))
    ELSE Result(TRUE, PyStr(cleaned), NoErr)

\* validate_value(value_str, header_name, attr_def, row_number): (is_valid, cleaned_value, error_msg)
validate_value(value_str, header_name, attr_def, row_number) ==
    IF IsBlank(value_str)
    THEN (IF IsRequired(attr_def) THEN Result(FALSE, PyNone, ErrMsg(row_number + 1, AttrName(attr_def, header_name), "required_empty", PyNone)) ELSE Result(TRUE, PyNone, NoErr))
    ELSE LET cleaned_value == Strip(value_str.s)
             attr_type == attr_def.type
             attr_name == AttrName(attr_def, header_name)
         IN CASE attr_type = "short_text" -> ValidateShortText(cleaned_value, attr_name, attr_def, row_number)
              [] attr_type \in {"long_text", "rich_text"} -> Result(TRUE, PyStr(cleaned_value), NoErr)
              [] attr_type = "number" -> ValidateNumber(cleaned_value, attr_name, attr_def, row_number)
              [] attr_type = "single_select" -> ValidateSingleSelect(cleaned_value, attr_name, attr_def, row_number)
              [] attr_type = "multiple_select" -> ValidateMultipleSelect(cleaned_value, attr_name, attr_def, row_number)
              [] attr_type = "measure" -> Result(TRUE, PyStr(cleaned_value), NoErr)
              [] OTHER -> Result(TRUE, PyStr(cleaned_value), NoErr)

\* ------------------------------------------------------------------------
\* The row loop of lambda_handler (lines 219-251), as a function of the
\* parsed CSV (csv.DictReader's fieldnames and rows) and the attribute map
\* ------------------------------------------------------------------------

\* row_data_dict.get(header_name): DictReader fills the cells a short row lacks with None
RowGet(headers, row, header_name) ==
    LET k == CHOOSE q \in 1..Len(headers) : headers[q] = header_name
    IN IF k <= Len(row) THEN PyStr(row[k]) ELSE PyNone

\* "Value is required" in specific_err
SaysValueRequired(err) == err.kind \in {"required_empty", "value_required", "required_missing"}

\* current_row_product_data.get(h) is None or str(...).strip() == ""
IsEmptyValue(v) == v.t = "none" \/ (v.t = "str" /\ Strip(v.s) = <<>>)

\* the second loop over the headers (lines 240-245): the required check on the cleaned values
RECURSIVE RequiredPass(_, _, _, _, _)
RequiredPass(hs, product, attrs, i, acc) ==
    IF hs = <<>> THEN acc
    ELSE LET header_name == Head(hs)
             missing == IsRequired(attrs[header_name]) /\ IsEmptyValue(product[header_name])
             said == \E k \in 1..Len(acc.errors) : acc.errors[k].col = header_name /\ SaysValueRequired(acc.errors[k])
             err_msg == ErrMsg(i + 1, header_name, "required_missing", PyNone)
         IN RequiredPass(Tail(hs), product, attrs, i,
                IF missing THEN [valid |-> FALSE, errors |-> IF said THEN acc.errors ELSE Append(acc.errors, err_msg)]
                ELSE acc)

HasError(r) == r.err.kind # "none"

\* the first loop over the headers (lines 233-239): one validate_value per recognized column
CellResults(i, row, headers, headers_for_result, attrs) ==
    [k \in 1..Len(headers_for_result) |->
        validate_value(RowGet(headers, row, headers_for_result[k]), headers_for_result[k], attrs[headers_for_result[k]], i)]

\* row_specific_errors after the first loop: the error messages, in column order
ErrorsOf(failed) == [k \in 1..Len(failed) |-> failed[k].err]

\* current_row_product_data: the cleaned value of every recognized column, accepted or not
ProductOf(cells, headers_for_result) ==
    [h \in {headers_for_result[k] : k \in 1..Len(headers_for_result)} |->
        cells[CHOOSE k \in 1..Len(headers_for_result) : headers_for_result[k] = h /\ \A q \in (k + 1)..Len(headers_for_result) : headers_for_result[q] # h].value]

\* is_current_row_valid and row_specific_errors after the first loop
FirstPass(cells) == [valid |-> \A k \in 1..Len(cells) : cells[k].ok, errors |-> ErrorsOf(SelectSeq(cells, HasError))]

RowVerdict(product, both) == [valid |-> both.valid, product |-> product, errors |-> both.errors]

RowChecks(cells, product, headers_for_result, attrs, i) == RowVerdict(product, RequiredPass(headers_for_result, product, attrs, i, FirstPass(cells)))

RowOfCells(cells, headers_for_result, attrs, i) == RowChecks(cells, ProductOf(cells, headers_for_result), headers_for_result, attrs, i)

\* one iteration of the loop over the rows (lines 232-245)
ValidateRow(i, row, headers, headers_for_result, attrs) ==
    RowOfCells(CellResults(i, row, headers, headers_for_result, attrs), headers_for_result, attrs, i)

\* lines 246-248 with the product appended whether or not the row is valid
Collect_KeepsFailedRow(acc, r) ==
    [products |-> Append(acc.products, r.product),
     errors |-> IF r.valid THEN acc.errors ELSE acc.errors \o r.errors,
     total_rows_read |-> acc.total_rows_read + 1]

\* lines 246-248: a valid row is appended to the products, an invalid one adds its errors
Collect(acc, r) ==
    [products |-> IF r.valid THEN Append(acc.products, r.product) ELSE acc.products,
     errors |-> IF r.valid THEN acc.errors ELSE acc.errors \o r.errors,
     total_rows_read |-> acc.total_rows_read + 1]

\* the loop over the rows (lines 231-248): products_for_result and validation_errors_list
RECURSIVE RowLoop(_, _, _, _, _, _)
RowLoop(i, rows, headers, headers_for_result, attrs, acc) ==
    IF i >= Len(rows) THEN acc
    ELSE RowLoop(i + 1, rows, headers, headers_for_result, attrs, Collect(acc, ValidateRow(i, rows[i + 1], headers, headers_for_result, attrs)))

\* line 250 without the test that a row was read
AllRowsClean_NoRowCount(validation_errors_list, ignored_headers_from_csv, total_rows_read, products_for_result) ==
    validation_errors_list = <<>> /\ ignored_headers_from_csv = <<>> /\ Len(products_for_result) = total_rows_read

\* line 250: the condition under which final_job_status becomes COMPLETED
AllRowsClean(validation_errors_list, ignored_headers_from_csv, total_rows_read, products_for_result) ==
    validation_errors_list = <<>> /\ ignored_headers_from_csv = <<>> /\ total_rows_read > 0 /\ Len(products_for_result) = total_rows_read

\* lines 249-251: the outcome of a file whose rows were looped over
Looped(headers, headers_for_result, ignored_headers_from_csv, looped) ==
    [message |-> [kind |-> "processed", rows |-> looped.total_rows_read, valid |-> Len(looped.products), issues |-> Len(looped.errors)],
     headers |-> headers_for_result, products |-> looped.products, originalHeaders |-> headers,
     ignoredHeaders |-> ignored_headers_from_csv, validationErrors |-> looped.errors,
     final_job_status |-> IF AllRowsClean(looped.errors, ignored_headers_from_csv, looped.total_rows_read, looped.products)
                          THEN "COMPLETED" ELSE "COMPLETED_WITH_ISSUES"]

\* lines 224-226: the headers that name a defined attribute, and the others
Recognized(headers, attrs) == LET Known(h) == h \in DOMAIN attrs IN SelectSeq(headers, Known)

Ignored(headers, attrs) == LET Unknown(h) == h \notin DOMAIN attrs IN SelectSeq(headers, Unknown)

\* lines 219-251 without the short-circuit of line 227: a file with no recognized header goes through the row loop
ProcessCsv_NoShortCircuit(headers, rows, attrs) ==
    IF headers = <<>>
    THEN [message |-> [kind |-> "empty_or_no_headers"], headers |-> <<>>, products |-> <<>>, originalHeaders |-> <<>>,
          ignoredHeaders |-> <<>>, validationErrors |-> <<>>, final_job_status |-> "COMPLETED_WITH_ISSUES"]
    ELSE Looped(headers, Recognized(headers, attrs), Ignored(headers, attrs),
                RowLoop(0, rows, headers, Recognized(headers, attrs), attrs, [products |-> <<>>, errors |-> <<>>, total_rows_read |-> 0]))

\* lines 211-251 for a CSV that parses: the outcome message, the lists of the result and final_job_status
ProcessCsv(headers, rows, attrs) ==
    IF headers = <<>>
    THEN [message |-> [kind |-> "empty_or_no_headers"], headers |-> <<>>, products |-> <<>>, originalHeaders |-> <<>>,
          ignoredHeaders |-> <<>>, validationErrors |-> <<>>, final_job_status |-> "COMPLETED_WITH_ISSUES"]
    ELSE IF Recognized(headers, attrs) = <<>>
    THEN [message |-> [kind |-> "no_matching_columns"], headers |-> <<>>, products |-> <<>>, originalHeaders |-> headers,
          ignoredHeaders |-> Ignored(headers, attrs), validationErrors |-> <<>>, final_job_status |-> "COMPLETED_WITH_ISSUES"]
    ELSE Looped(headers, Recognized(headers, attrs), Ignored(headers, attrs),
                RowLoop(0, rows, headers, Recognized(headers, attrs), attrs, [products |-> <<>>, errors |-> <<>>, total_rows_read |-> 0]))

\* ------------------------------------------------------------------------
\* Inputs: the attribute definitions, the uploaded objects, the queue records
\* ------------------------------------------------------------------------

\* the attribute_definitions collection, keyed by name as get_defined_attributes_map builds it
StdAttrs ==
    [Name  |-> [name |-> "Name", type |-> "short_text", isRequired |-> FALSE],
     Color |-> [name |-> "Color", type |-> "single_select", options |-> << <<"R", "e", "d">>, <<"B", "l", "u", "e">> >>, isRequired |-> FALSE],
     Price |-> [name |-> "Price", type |-> "number", isRequired |-> TRUE],
     Tags  |-> [name |-> "Tags", type |-> "multiple_select", options |-> << <<"A">>, <<"B">>, <<"C">> >>, isRequired |-> FALSE]]

Widget == <<"W", "i", "d", "g", "e", "t">>

Gadget == <<"G", "a", "d", "g", "e", "t">>

Csv(headers, rows) == [kind |-> "csv", headers |-> headers, rows |-> rows]

\* the objects of the upload bucket, by key (a key is its path segments); a key that
\* is not listed has no object (NoSuchKey)
Uploads ==
    [good     |-> Csv(<<"Name", "Price">>, << <<Gadget, <<"1", "9", ".", "9", "9">>>> >>),
     badcell  |-> Csv(<<"Name", "Color">>, << <<Widget, <<"G", "r", "e", "e", "n">>>> >>),
     headers  |-> Csv(<<"Name", "Color">>, <<>>),
     bare     |-> Csv(<<"Name", "Extra">>, <<>>),
     extra    |-> Csv(<<"Name", "Extra">>, << <<Widget, <<"x">>>> >>),
     mixed    |-> Csv(<<"Name", "Price", "Tags">>, << <<Gadget, <<"4", "2">>, <<"A", ";", "C">>>>, <<Widget, <<"a", "b", "c">>, <<"A", ";", "D">>>>, <<Widget, <<" ">>>> >>),
     short    |-> Csv(<<"Name", "Price", "Tags">>, << <<Gadget, <<"5">>>>, <<Widget>>, <<Gadget, <<" ", "7">>>>, <<Widget, <<"\t">>, <<"A">>>> >>),
     empty    |-> Csv(<<>>, <<>>),
     nomatch  |-> Csv(<<"Foo", "Bar">>, << <<<<"1">>, <<"2">>>> >>),
     broken   |-> [kind |-> "csv_error"],
     binary   |-> [kind |-> "not_utf8"],
     secret   |-> [kind |-> "access_denied"]]

\* None or the empty string: the handler only tests these fields for truth
NoValue == ""

JobIds == {"jobA", "jobB"}

\* the body of a well-formed message, as lambda_initiate_s3_processing sends it
Payload(job_id, name, submitted_at) ==
    [jobId |-> job_id, s3Bucket |-> "uploads", s3Key |-> <<"uploads", name>>, originalFileName |-> name, submittedAt |-> submitted_at]

Body(payload) == [body |-> "json", payload |-> payload]

\* messages that lack a field, a body, or are not JSON
Malformed ==
    {[body |-> "missing"], [body |-> "not_json"],
     Body([s3Bucket |-> "uploads", s3Key |-> <<"uploads", "good">>]),
     Body([jobId |-> "jobA", s3Bucket |-> "uploads"]),
     Body([jobId |-> "jobB", s3Key |-> <<"uploads", "good">>])}

\* the queue records a delivery may carry
Records ==
    {Body(Payload("jobA", n, s)) : n \in {"good", "badcell", "headers", "ghost", "broken"}, s \in {0}}
    \cup {Body(Payload("jobA", "good", 1)), Body([jobId |-> "jobA", s3Bucket |-> "uploads", s3Key |-> <<"uploads", "good">>])}
    \cup {Body(Payload("jobB", n, 0)) : n \in {"good", "ghost"}}
    \cup Malformed

\* every uploaded object, one job: the inputs of the specification of the row loop
FileRecords == {Body(Payload("jobA", n, 0)) : n \in (DOMAIN Uploads) \cup {"ghost"}}

\* s3_client.get_object(Bucket, Key): the object, or the ClientError code
GetObject(s3_bucket, s3_key) ==
    IF s3_bucket = "uploads" /\ Len(s3_key) = 2 /\ s3_key[1] = "uploads" /\ s3_key[2] \in DOMAIN Uploads
    THEN (IF Uploads[s3_key[2]].kind = "access_denied" THEN [kind |-> "client_error", code |-> "AccessDenied"] ELSE Uploads[s3_key[2]])
    ELSE [kind |-> "client_error", code |-> "NoSuchKey"]

\* os.path.basename(s3_key or "unknown_file")
Basename(s3_key) == IF s3_key = <<>> THEN "unknown_file" ELSE s3_key[Len(s3_key)]

\* payload.get(k) for the fields tested for truth
Get(payload, k) == IF k \in DOMAIN payload THEN payload[k] ELSE NoValue

\* payload.get('s3Key'): no key reads as the empty path
GetKey(payload) == IF "s3Key" \in DOMAIN payload THEN payload.s3Key ELSE <<>>

\* f"{PROCESSED_RESULTS_PREFIX.rstrip('/')}/{job_id}-result.json"
ResultKey(job_id) == <<"processed-files", job_id, "-result.json">>

\* ------------------------------------------------------------------------
\* State
\* ------------------------------------------------------------------------

MaxEntries == 2

MaxFaults == 1

VARIABLES
    jobs,       \* the processing_jobs collection: job id -> document
    results,    \* the results bucket: key -> result document
    attrDefs,   \* the attribute_definitions collection: name -> definition
    bucketSet,  \* PROCESSED_RESULTS_BUCKET is configured
    clock,      \* datetime.now(): every reading is later than the one before
    pc,         \* where the handler is: idle, loop, log_initial, attributes, download, validate, put, final, except
    idx,        \* record_index of the loop over event['Records']
    batchLen,   \* len(event['Records'])
    rec,        \* the record being processed
    loc,        \* the locals of the loop body
    outcome,    \* how the last invocation ended: none, running, returned, raised
    used,       \* records handled so far, over all invocations
    faults,     \* infrastructure failures so far
    last,       \* the record the handler finished last and how it left it
    prev,       \* the record finished before that, with the job and result it left
    request,    \* the HTTP request a handler behind the API was invoked with last
    response,   \* the response it returned
    call,       \* the arguments validate_value is applied to, and what it returned
    attributes, \* the attribute_definitions collection, as the attribute management handlers address it: a set of documents with _id
    queue,      \* the processing queue: the message bodies sent to it, in order
    products    \* the products collection: a set of documents with _id

\* the variables the queue consumer neither reads nor writes
others == <<request, response, call, attributes, queue, products>>

vars == <<jobs, results, attrDefs, bucketSet, clock, pc, idx, batchLen, rec, loc, outcome, used, faults, last, prev, others>>

Terminal == {"COMPLETED", "COMPLETED_WITH_ISSUES", "FAILED"}

\* whether an infrastructure call may fail now
Outcomes == IF faults < MaxFaults THEN BOOLEAN ELSE {TRUE}

Fault(ok) == IF ok THEN 0 ELSE 1

\* ------------------------------------------------------------------------
\* Job status tracker
\* ------------------------------------------------------------------------

\* log_initial_job_status with submittedAt among the fields of $set
LogInitialUpsert_SetsSubmittedAt(js, job_id, s3_bucket, s3_key, original_file_name, submitted_at_iso, now) ==
    (job_id :> ([s3Bucket |-> s3_bucket, s3Key |-> s3_key, originalFileName |-> original_file_name, status |-> "PROCESSING",
                 processingStartedAt |-> now, updatedAt |-> now, submittedAt |-> submitted_at_iso]
                @@ (IF job_id \in DOMAIN js THEN js[job_id] ELSE <<>>))) @@ js

\* log_initial_job_status with the filter {} in place of {'_id': job_id}: every stored job is set to PROCESSING
LogInitialUpsert_AnyJob(js, job_id, s3_bucket, s3_key, original_file_name, submitted_at_iso, now) ==
    LET job_document_fields == [s3Bucket |-> s3_bucket, s3Key |-> s3_key, originalFileName |-> original_file_name,
                                status |-> "PROCESSING", processingStartedAt |-> now, updatedAt |-> now]
    IN IF DOMAIN js # {} THEN [j \in DOMAIN js |-> job_document_fields @@ js[j]]
       ELSE (job_id :> (job_document_fields @@ [submittedAt |-> submitted_at_iso])) @@ js

\* log_initial_job_status: the upsert; $set of the fields, $setOnInsert of submittedAt
LogInitialUpsert(js, job_id, s3_bucket, s3_key, original_file_name, submitted_at_iso, now) ==
    LET job_document_fields == [s3Bucket |-> s3_bucket, s3Key |-> s3_key, originalFileName |-> original_file_name,
                                status |-> "PROCESSING", processingStartedAt |-> now, updatedAt |-> now]
    IN IF job_id \in DOMAIN js THEN [js EXCEPT ![job_id] = job_document_fields @@ @]
       ELSE (job_id :> (job_document_fields @@ [submittedAt |-> submitted_at_iso])) @@ js

\* error_details=None
NoDetails == [none |-> TRUE]

\* update_fields without errorDetails
UpdateFields_NoErrorDetails(status, result_s3_key, error_details, now) ==
    [status |-> status, updatedAt |-> now] @@ (IF result_s3_key # <<>> THEN [resultS3Key |-> result_s3_key] ELSE <<>>)

\* the fields update_job_status sets
UpdateFields(status, result_s3_key, error_details, now) ==
    [status |-> status, updatedAt |-> now]
    @@ (IF result_s3_key # <<>> THEN [resultS3Key |-> result_s3_key] ELSE <<>>)
    @@ (IF error_details # NoDetails THEN [errorDetails |-> error_details] ELSE <<>>)

\* update_job_status with upsert=True: a record is created for an identifier that has none
update_job_status_Upsert(js, job_id, status, result_s3_key, error_details, now, ok) ==
    IF ~ok THEN js
    ELSE IF job_id \in DOMAIN js THEN [js EXCEPT ![job_id] = UpdateFields(status, result_s3_key, error_details, now) @@ @]
    ELSE (job_id :> UpdateFields(status, result_s3_key, error_details, now)) @@ js

\* update_job_status with the filter {} in place of {'_id': job_id}: update_one takes the first record of the collection
update_job_status_AnyJob(js, job_id, status, result_s3_key, error_details, now, ok) ==
    IF ok /\ DOMAIN js # {}
    THEN LET first == CHOOSE j \in DOMAIN js : \A k \in DOMAIN js : js[j].processingStartedAt <= js[k].processingStartedAt
         IN [js EXCEPT ![first] = UpdateFields(status, result_s3_key, error_details, now) @@ @]
    ELSE js

\* update_job_status: update_one with $set, no upsert; a store error is logged and swallowed
update_job_status(js, job_id, status, result_s3_key, error_details, now, ok) ==
    IF ok /\ job_id \in DOMAIN js THEN [js EXCEPT ![job_id] = UpdateFields(status, result_s3_key, error_details, now) @@ @] ELSE js

\* get_defined_attributes_map: the definitions by name; a store error gives the empty map
get_defined_attributes_map(collection, ok) == IF ok THEN collection ELSE <<>>

\* ------------------------------------------------------------------------
\* lambda_handler: the loop over event['Records']
\* ------------------------------------------------------------------------

NoRecord == [body |-> "none"]

NoLast == [rec |-> NoRecord, path |-> "none", raised |-> FALSE, left |-> 0, accepted |-> FALSE, clean |-> TRUE]

NoPrev == [rec |-> NoRecord, clean |-> FALSE, job |-> <<>>, art |-> <<>>]

NoRequest == [handler |-> "none"]

NoResponse == [statusCode |-> 0]

NoCall == [done |-> FALSE]

Init ==
    /\ jobs = <<>>
    /\ results = <<>>
    /\ attrDefs = StdAttrs
    /\ bucketSet \in BOOLEAN
    /\ clock = 1
    /\ pc = "idle"
    /\ idx = 0
    /\ batchLen = 0
    /\ rec = NoRecord
    /\ loc = [job_id |-> NoValue, db_client |-> FALSE, accepted |-> FALSE, clean |-> TRUE]
    /\ outcome = "none"
    /\ used = 0
    /\ faults = 0
    /\ last = NoLast
    /\ prev = NoPrev
    /\ request = NoRequest
    /\ response = NoResponse
    /\ call = NoCall
    /\ attributes = {}
    /\ queue = <<>>
    /\ products = {}

\* the queue invokes the handler with a batch of n records
Deliver(n) ==
    /\ pc = "idle"
    /\ used + n <= MaxEntries
    /\ pc' = "loop"
    /\ idx' = 0
    /\ batchLen' = n
    /\ outcome' = "running"
    /\ used' = used + n
    /\ UNCHANGED <<jobs, results, attrDefs, bucketSet, others, clock, rec, loc, faults, last, prev>>

\* what the job and its result look like, for comparing two deliveries of one message
JobOf(js, job_id) == IF job_id \in DOMAIN js THEN js[job_id] ELSE <<>>

ArtOf(rs, job_id) == IF ResultKey(job_id) \in DOMAIN rs THEN rs[ResultKey(job_id)] ELSE <<>>

\* the loop moves to the next record (continue, or the end of the body)
Continue(path, js) ==
    /\ pc' = "loop"
    /\ idx' = idx + 1
    /\ jobs' = js
    /\ last' = [rec |-> rec', path |-> path, raised |-> FALSE, left |-> batchLen - (idx + 1), accepted |-> loc'.accepted, clean |-> loc'.clean]
    /\ UNCHANGED <<batchLen, outcome>>

\* lines 137-177: read the record, parse the payload, connect, check the identifiers
StartEntry(r, connected, ok) ==
    LET payload == r.payload
        job_id == Get(payload, "jobId")
        s3_bucket == Get(payload, "s3Bucket")
        s3_key == GetKey(payload)
        fresh == [job_id |-> NoValue, db_client |-> FALSE, accepted |-> FALSE, clean |-> TRUE, path |-> "none"]
        parsed == [job_id |-> job_id, s3_bucket |-> s3_bucket, s3_key |-> s3_key,
                   original_file_name |-> IF "originalFileName" \in DOMAIN payload THEN payload.originalFileName ELSE Basename(s3_key),
                   submitted_at_iso |-> IF "submittedAt" \in DOMAIN payload THEN payload.submittedAt ELSE clock,
                   db_client |-> connected, accepted |-> FALSE, clean |-> connected, path |-> "none"]
    IN /\ pc = "loop"
       /\ idx < batchLen
       /\ rec' = r
       /\ prev' = [rec |-> last.rec, clean |-> last.clean,
                   job |-> IF last.rec.body = "json" THEN JobOf(jobs, Get(last.rec.payload, "jobId")) ELSE <<>>,
                   art |-> IF last.rec.body = "json" THEN ArtOf(results, Get(last.rec.payload, "jobId")) ELSE <<>>]
       /\ UNCHANGED <<results, attrDefs, bucketSet, others, used>>
       /\ CASE r.body = "missing" ->
                 /\ connected /\ ok
                 /\ loc' = fresh
                 /\ Continue("no_body", jobs)
                 /\ UNCHANGED <<clock, faults>>
            [] r.body = "not_json" ->
                 /\ connected /\ ok
                 /\ loc' = [fresh EXCEPT !.path = "bad_json"]
                 /\ pc' = "except"
                 /\ UNCHANGED <<jobs, idx, batchLen, outcome, last, clock, faults>>
            [] OTHER ->
                 IF ~connected
                 THEN /\ ok
                      /\ loc' = [parsed EXCEPT !.path = "connect"]
                      /\ pc' = "except"
                      /\ clock' = clock + 1
                      /\ faults' = faults + 1
                      /\ UNCHANGED <<jobs, idx, batchLen, outcome, last>>
                 ELSE IF job_id = NoValue \/ s3_bucket = NoValue \/ s3_key = <<>>
                 THEN /\ job_id # NoValue \/ ok
                      /\ loc' = [parsed EXCEPT !.accepted = ok /\ job_id \in DOMAIN jobs, !.clean = ok]
                      /\ clock' = IF job_id # NoValue THEN clock + 2 ELSE clock + 1
                      /\ faults' = faults + Fault(ok)
                      /\ Continue("missing_ids", IF job_id # NoValue
                                   THEN update_job_status(jobs, job_id, "FAILED", <<>>, [error |-> "missing_ids"], clock + 1, ok)
                                   ELSE jobs)
                 ELSE /\ ok
                      /\ loc' = parsed
                      /\ pc' = "log_initial"
                      /\ clock' = clock + 1
                      /\ UNCHANGED <<jobs, idx, batchLen, outcome, last, faults>>

\* lines 179-181: log_initial_job_status; False (a store error) skips the record
LogInitial(ok) ==
    /\ pc = "log_initial"
    /\ clock' = clock + 1
    /\ faults' = faults + Fault(ok)
    /\ UNCHANGED <<results, attrDefs, bucketSet, others, rec, used, prev>>
    /\ IF ok
       THEN /\ jobs' = LogInitialUpsert(jobs, loc.job_id, loc.s3_bucket, loc.s3_key, loc.original_file_name, loc.submitted_at_iso, clock)
            /\ pc' = "attributes"
            /\ UNCHANGED <<loc, idx, batchLen, outcome, last>>
       ELSE /\ loc' = [loc EXCEPT !.clean = FALSE]
            /\ Continue("log_initial", jobs)

\* lines 183-194: the results bucket must be configured and the attribute map non-empty
LoadAttributes(found, ok) ==
    LET defined_attributes_map == get_defined_attributes_map(attrDefs, found)
    IN /\ pc = "attributes"
       /\ UNCHANGED <<results, attrDefs, bucketSet, others, rec, used, prev>>
       /\ IF ~bucketSet
          THEN /\ found
               /\ loc' = [loc EXCEPT !.accepted = ok, !.clean = ok]
               /\ clock' = clock + 1
               /\ faults' = faults + Fault(ok)
               /\ Continue("no_bucket", update_job_status(jobs, loc.job_id, "FAILED", <<>>, [error |-> "no_results_bucket"], clock, ok))
          ELSE IF DOMAIN defined_attributes_map = {}
          THEN /\ found \/ ok
               /\ loc' = [loc EXCEPT !.accepted = ok, !.clean = ok /\ found]
               /\ clock' = clock + 1
               /\ faults' = faults + Fault(ok) + Fault(found)
               /\ faults' <= MaxFaults
               /\ Continue("no_attrs", update_job_status(jobs, loc.job_id, "FAILED", <<>>, [error |-> "no_attribute_definitions"], clock, ok))
          ELSE /\ ok
               /\ loc' = loc @@ [attrs |-> defined_attributes_map]
               /\ pc' = "download"
               /\ UNCHANGED <<jobs, idx, batchLen, outcome, last, clock, faults>>

\* error_detail_for_db of lines 206-207
DownloadError(code) == [error |-> IF code = "NoSuchKey" THEN "File not found in S3." ELSE "S3 download error", s3_error_code |-> code]

\* lines 199-209: get_object and decode; a ClientError marks the job FAILED and is raised again
Download(ok) ==
    LET object == GetObject(loc.s3_bucket, loc.s3_key)
    IN /\ pc = "download"
       /\ UNCHANGED <<results, attrDefs, bucketSet, others, rec, used, prev>>
       /\ CASE object.kind = "client_error" ->
                 /\ clock' = clock + 1
                 /\ faults' = faults + Fault(ok)
                 /\ pc' = "except"
                 /\ jobs' = update_job_status(jobs, loc.job_id, "FAILED", <<>>, DownloadError(object.code), clock, ok)
                 /\ loc' = [loc EXCEPT !.path = "download", !.accepted = ok, !.clean = ok]
                 /\ UNCHANGED <<idx, batchLen, outcome, last>>
            [] object.kind = "not_utf8" ->
                 /\ ok
                 /\ pc' = "except"
                 /\ loc' = [loc EXCEPT !.path = "decode"]
                 /\ UNCHANGED <<jobs, idx, batchLen, outcome, last, clock, faults>>
            [] OTHER ->
                 /\ ok
                 /\ pc' = "validate"
                 /\ loc' = loc @@ [file_content |-> object]
                 /\ UNCHANGED <<jobs, idx, batchLen, outcome, last, clock, faults>>

\* result_data_to_save with the products and errors of the stored result of the job kept in front of the new ones
WithResult_Merging(l, r, now) ==
    LET old == IF ResultKey(l.job_id) \in DOMAIN results THEN results[ResultKey(l.job_id)] ELSE [products |-> <<>>, validationErrors |-> <<>>]
    IN l @@ [final_job_status |-> r.final_job_status,
             result_data_to_save |-> [jobId |-> l.job_id, s3Key |-> l.s3_key, processingTimestamp |-> now,
                                      message |-> r.message, fileName |-> l.original_file_name,
                                      headers |-> r.headers, products |-> old.products \o r.products, originalHeaders |-> r.originalHeaders,
                                      ignoredHeaders |-> r.ignoredHeaders, validationErrors |-> old.validationErrors \o r.validationErrors]]

\* lines 255-261: result_data_to_save, kept with final_job_status in the locals
WithResult(l, r, now) ==
    l @@ [final_job_status |-> r.final_job_status,
          result_data_to_save |-> [jobId |-> l.job_id, s3Key |-> l.s3_key, processingTimestamp |-> now,
                                   message |-> r.message, fileName |-> l.original_file_name,
                                   headers |-> r.headers, products |-> r.products, originalHeaders |-> r.originalHeaders,
                                   ignoredHeaders |-> r.ignoredHeaders, validationErrors |-> r.validationErrors]]

\* lines 211-261: parse and validate; a csv.Error marks the job FAILED and skips the record
Validate(ok) ==
    /\ pc = "validate"
    /\ UNCHANGED <<results, attrDefs, bucketSet, others, rec, used, prev>>
    /\ IF loc.file_content.kind = "csv_error"
       THEN /\ loc' = [loc EXCEPT !.accepted = ok, !.clean = ok]
            /\ clock' = clock + 1
            /\ faults' = faults + Fault(ok)
            /\ Continue("csv_error", update_job_status(jobs, loc.job_id, "FAILED", <<>>, [error |-> "csv_parse"], clock, ok))
       ELSE /\ ok
            /\ pc' = "put"
            /\ clock' = clock + 1
            /\ loc' = WithResult(loc, ProcessCsv(loc.file_content.headers, loc.file_content.rows, loc.attrs), clock)
            /\ UNCHANGED <<jobs, idx, batchLen, outcome, last, faults>>

\* lines 262-270 with the status update of line 266 made whether or not put_object succeeded
PutResult_MarksCompleted(put_ok, ok) ==
    /\ pc = "put"
    /\ UNCHANGED <<attrDefs, bucketSet, others, rec, used, prev>>
    /\ IF put_ok
       THEN /\ ok
            /\ results' = (ResultKey(loc.job_id) :> loc.result_data_to_save) @@ results
            /\ pc' = "final"
            /\ UNCHANGED <<jobs, loc, idx, batchLen, outcome, last, clock, faults>>
       ELSE /\ results' = results
            /\ pc' = "except"
            /\ clock' = clock + 1
            /\ faults' = faults + 1 + Fault(ok)
            /\ faults' <= MaxFaults
            /\ jobs' = update_job_status(jobs, loc.job_id, loc.final_job_status, ResultKey(loc.job_id), NoDetails, clock, ok)
            /\ loc' = [loc EXCEPT !.path = "put", !.accepted = ok, !.clean = FALSE]
            /\ UNCHANGED <<idx, batchLen, outcome, last>>

\* lines 262-270 with the time of the attempt in the key of the result: every attempt writes an object of its own
PutResult_KeyPerAttempt(put_ok, ok) ==
    /\ pc = "put"
    /\ UNCHANGED <<attrDefs, bucketSet, others, rec, used, prev>>
    /\ IF put_ok
       THEN /\ ok
            /\ results' = (<<"processed-files", loc.job_id, "-result.json", loc.result_data_to_save.processingTimestamp>> :> loc.result_data_to_save) @@ results
            /\ pc' = "final"
            /\ UNCHANGED <<jobs, loc, idx, batchLen, outcome, last, clock, faults>>
       ELSE /\ results' = results
            /\ pc' = "except"
            /\ clock' = clock + 1
            /\ faults' = faults + 1 + Fault(ok)
            /\ faults' <= MaxFaults
            /\ jobs' = update_job_status(jobs, loc.job_id, "FAILED", <<>>, [error |-> "Failed to save results to S3.", s3Error |-> "put_object"], clock, ok)
            /\ loc' = [loc EXCEPT !.path = "put", !.accepted = ok, !.clean = FALSE]
            /\ UNCHANGED <<idx, batchLen, outcome, last>>

\* lines 262-270: put_object; a failure marks the job FAILED and is raised again
PutResult(put_ok, ok) ==
    LET result_s3_key_path == ResultKey(loc.job_id)
    IN /\ pc = "put"
       /\ UNCHANGED <<attrDefs, bucketSet, others, rec, used, prev>>
       /\ IF put_ok
          THEN /\ ok
               /\ results' = (result_s3_key_path :> loc.result_data_to_save) @@ results
               /\ pc' = "final"
               /\ UNCHANGED <<jobs, loc, idx, batchLen, outcome, last, clock, faults>>
          ELSE /\ results' = results
               /\ pc' = "except"
               /\ clock' = clock + 1
               /\ faults' = faults + 1 + Fault(ok)
               /\ faults' <= MaxFaults
               /\ jobs' = update_job_status(jobs, loc.job_id, "FAILED", <<>>, [error |-> "Failed to save results to S3.", s3Error |-> "put_object"], clock, ok)
               /\ loc' = [loc EXCEPT !.path = "put", !.accepted = ok, !.clean = FALSE]
               /\ UNCHANGED <<idx, batchLen, outcome, last>>

\* line 266: the terminal status with the key of the result
FinalUpdate(ok) ==
    /\ pc = "final"
    /\ clock' = clock + 1
    /\ faults' = faults + Fault(ok)
    /\ loc' = [loc EXCEPT !.accepted = ok, !.clean = ok]
    /\ UNCHANGED <<results, attrDefs, bucketSet, others, rec, used, prev>>
    /\ Continue("done", update_job_status(jobs, loc.job_id, loc.final_job_status, ResultKey(loc.job_id), NoDetails, clock, ok))

\* lines 274-278 with the status of the record left as it is: only errorDetails is written
Except_StatusKept(ok) ==
    /\ pc = "except"
    /\ (loc.db_client /\ loc.job_id # NoValue) \/ ok
    /\ IF loc.db_client /\ loc.job_id # NoValue
       THEN /\ jobs' = update_job_status(jobs, loc.job_id, "PROCESSING", <<>>, [error |-> "Unhandled exception during processing.", exception |-> loc.path], clock, ok)
            /\ clock' = clock + 1
            /\ faults' = faults + Fault(ok)
            /\ loc' = [loc EXCEPT !.accepted = ok /\ loc.job_id \in DOMAIN jobs, !.clean = @ /\ ok]
       ELSE /\ UNCHANGED <<jobs, clock, faults, loc>>
    /\ pc' = "idle"
    /\ outcome' = "raised"
    /\ last' = [rec |-> rec, path |-> loc.path, raised |-> TRUE, left |-> batchLen - (idx + 1), accepted |-> loc'.accepted, clean |-> loc'.clean]
    /\ UNCHANGED <<results, attrDefs, bucketSet, others, idx, batchLen, rec, used, prev>>

\* lines 274-278: mark the job FAILED when there is a client and a job id, and raise out of the handler
Except(ok) ==
    /\ pc = "except"
    /\ (loc.db_client /\ loc.job_id # NoValue) \/ ok
    /\ IF loc.db_client /\ loc.job_id # NoValue
       THEN /\ jobs' = update_job_status(jobs, loc.job_id, "FAILED", <<>>, [error |-> "Unhandled exception during processing.", exception |-> loc.path], clock, ok)
            /\ clock' = clock + 1
            /\ faults' = faults + Fault(ok)
            /\ loc' = [loc EXCEPT !.accepted = @ \/ (ok /\ loc.job_id \in DOMAIN jobs), !.clean = @ /\ ok]
       ELSE /\ UNCHANGED <<jobs, clock, faults, loc>>
    /\ pc' = "idle"
    /\ outcome' = "raised"
    /\ last' = [rec |-> rec, path |-> loc.path, raised |-> TRUE, left |-> batchLen - (idx + 1), accepted |-> loc'.accepted, clean |-> loc'.clean]
    /\ UNCHANGED <<results, attrDefs, bucketSet, others, idx, batchLen, rec, used, prev>>

\* line 280: the loop is over and the handler returns
Return ==
    /\ pc = "loop"
    /\ idx = batchLen
    /\ pc' = "idle"
    /\ outcome' = "returned"
    /\ UNCHANGED <<jobs, results, attrDefs, bucketSet, others, clock, idx, batchLen, rec, loc, used, faults, last, prev>>

Next ==
    \/ \E n \in 1..MaxEntries : Deliver(n)
    \/ \E r \in Records, connected \in Outcomes, ok \in Outcomes : StartEntry(r, connected, ok)
    \/ \E ok \in Outcomes : LogInitial(ok)
    \/ \E found \in Outcomes, ok \in Outcomes : LoadAttributes(found, ok)
    \/ \E ok \in Outcomes : Download(ok)
    \/ \E ok \in Outcomes : Validate(ok)
    \/ \E put_ok \in Outcomes, ok \in Outcomes : PutResult(put_ok, ok)
    \/ \E ok \in Outcomes : FinalUpdate(ok)
    \/ \E ok \in Outcomes : Except(ok)
    \/ Return

Spec == Init /\ [][Next]_vars

NextFiles ==
    \/ used = 0 /\ Deliver(1)
    \/ \E r \in FileRecords, connected \in Outcomes, ok \in Outcomes : StartEntry(r, connected, ok)
    \/ \E ok \in Outcomes : LogInitial(ok)
    \/ \E found \in Outcomes, ok \in Outcomes : LoadAttributes(found, ok)
    \/ \E ok \in Outcomes : Download(ok)
    \/ \E ok \in Outcomes : Validate(ok)
    \/ \E put_ok \in Outcomes, ok \in Outcomes : PutResult(put_ok, ok)
    \/ \E ok \in Outcomes : FinalUpdate(ok)
    \/ \E ok \in Outcomes : Except(ok)
    \/ Return

SpecFiles == Init /\ [][NextFiles]_vars

\* ------------------------------------------------------------------------
\* lambda_get_job_status: GET /jobs/{jobId}
\* ------------------------------------------------------------------------

\* the variables of the queue consumer
consumer == <<jobs, results, attrDefs, bucketSet, clock, pc, idx, batchLen, rec, loc, outcome, used, faults, last, prev>>

URL_EXPIRATION_SECONDS_GET_RESULT == 300

\* generate_presigned_get_url: the URL, by what it gives access to
PresignedGetUrl(bucket_name, object_key, expiration_seconds) == [Bucket |-> bucket_name, Key |-> object_key, ExpiresIn |-> expiration_seconds]

\* lines 118-130 without the test of the status: a URL for every record that has a resultS3Key
WithDownloadUrl_AnyStatus(job_document, results_bucket, presign_ok) ==
    IF "resultS3Key" \in DOMAIN job_document /\ results_bucket # NoValue /\ presign_ok
    THEN [resultDownloadUrl |-> PresignedGetUrl(results_bucket, job_document.resultS3Key, URL_EXPIRATION_SECONDS_GET_RESULT)] @@ job_document
    ELSE job_document

\* lines 118-130: resultDownloadUrl is added for a completed job that has a resultS3Key,
\* when the results bucket is configured and the URL could be signed
WithDownloadUrl(job_document, results_bucket, presign_ok) ==
    IF job_document.status \in {"COMPLETED", "COMPLETED_WITH_ISSUES"} /\ "resultS3Key" \in DOMAIN job_document
       /\ results_bucket # NoValue /\ presign_ok
    THEN [resultDownloadUrl |-> PresignedGetUrl(results_bucket, job_document.resultS3Key, URL_EXPIRATION_SECONDS_GET_RESULT)] @@ job_document
    ELSE job_document

\* find_one({'_id': job_id}) on a record that exists
FindJob(js, job_id) == [_id |-> job_id] @@ js[job_id]

HttpResponse(status_code, body) == [statusCode |-> status_code, body |-> body]

\* an exception leaves the handler: the caller gets no response (no status code, no body)
Escaped(exception) == [raised |-> exception, statusCode |-> 0, body |-> <<>>]

\* lambda_handler of lambda_get_job_status (lines 78-160). null_params: the event has
\* pathParameters null, so that path_parameters.get (line 94) raises AttributeError before
\* job_id is assigned; the except clause of line 154 then formats job_id into its log
\* line (line 155), which raises UnboundLocalError out of the handler
GetJobStatus(job_id, null_params, connected, find_ok, results_bucket, presign_ok) ==
    /\ request' = [handler |-> "get_job_status", jobId |-> job_id, null_params |-> null_params, store_up |-> connected /\ find_ok]
    /\ response' = IF ~connected THEN HttpResponse(503, [error |-> "Failed to connect to database"])
                   ELSE IF null_params THEN Escaped("UnboundLocalError")
                   ELSE IF job_id = NoValue THEN HttpResponse(400, [error |-> "Missing 'jobId' in path."])
                   ELSE IF ~find_ok THEN HttpResponse(500, [error |-> "Database operation error"])
                   ELSE IF job_id \notin DOMAIN jobs THEN HttpResponse(404, [error |-> "not found"])
                   ELSE HttpResponse(200, WithDownloadUrl(FindJob(jobs, job_id), results_bucket, presign_ok))
    /\ UNCHANGED <<consumer, call, attributes, queue, products>>

\* the messages the consumer is given while the status is polled
StatusRecords == {Body(Payload("jobA", n, 0)) : n \in {"good", "ghost", "broken"}}

\* the consumer, with every store and blob call succeeding, and the status read at any moment
NextStatus ==
    \/ \E n \in 1..MaxEntries : Deliver(n)
    \/ \E r \in StatusRecords : StartEntry(r, TRUE, TRUE)
    \/ LogInitial(TRUE)
    \/ LoadAttributes(TRUE, TRUE)
    \/ Download(TRUE)
    \/ Validate(TRUE)
    \/ PutResult(TRUE, TRUE)
    \/ FinalUpdate(TRUE)
    \/ Except(TRUE)
    \/ Return
    \/ \E job_id \in JobIds \cup {NoValue}, connected \in BOOLEAN, find_ok \in BOOLEAN, results_bucket \in {NoValue, "results"}, presign_ok \in BOOLEAN :
           GetJobStatus(job_id, FALSE, connected, find_ok, results_bucket, presign_ok)
    \/ \E connected \in BOOLEAN : GetJobStatus(NoValue, TRUE, connected, TRUE, "results", TRUE)

SpecStatus == Init /\ [][NextStatus]_vars


\* ------------------------------------------------------------------------
\* validate_value applied to one cell: the cells and definitions it is given
\* ------------------------------------------------------------------------

MaxLen == 3

\* the strings of at most n characters of the alphabet
RECURSIVE StringsOver(_, _)
StringsOver(alphabet, n) ==
    IF n = 0 THEN {<<>>}
    ELSE LET shorter == StringsOver(alphabet, n - 1) IN shorter \cup {Append(s, c) : s \in shorter, c \in alphabet}

Str(cells) == {PyStr(s) : s \in cells}

\* cell_value_str of line 234: None for a cell the row lacks, or the text of the cell
BlankCells == {PyNone} \cup Str({<<>>, <<" ">>, <<"\t", " ">>, <<" ", "\n">>})

NumberCells ==
    Str(StringsOver({"1", "0", ".", "e", "-"}, MaxLen))
    \cup Str({<<"4", "2">>, <<"4", "2", ".", "5">>, <<"a", "b", "c">>, <<"4", "2", ".", "0">>, <<" ", "4", "2", " ">>, <<"4", " ", "2">>, <<"1", "e", "-", "1">>,
              <<"+", "7">>, <<"+", "-", "7">>, <<"1", "E", "+", "2">>, <<"1", ",", "5">>, <<"n", "a", "n">>, <<"N", "a", "N">>, <<"-", "n", "a", "n">>, <<"n", "a">>,
              <<"i", "n", "f">>, <<"-", "I", "n", "f">>, <<"I", "n", "f", "i", "n", "i", "t", "y">>, <<"i", "n", "f", "i">>})

Red == <<"R", "e", "d">>

Blue == <<"B", "l", "u", "e">>

Green == <<"G", "r", "e", "e", "n">>

SingleCells == Str({Red, Blue, Green, <<" ", "R", "e", "d", " ">>, <<"r", "e", "d">>, <<"R", "e", "d", ";", "B", "l", "u", "e">>, <<"R", "e">>})

MultiCells == Str(StringsOver({"A", "D", ";", " "}, MaxLen)) \cup Str({<<"A", ";", " ", "C">>, <<"A", ";", "D", ";", "E">>, <<"C", ";", "A", ";", "B">>})

LongText == [k \in 1..(SHORT_TEXT_MAX_LENGTH + 1) |-> "x"]

TextCells == Str({Widget, <<" ", "a", " ">>, LongText, SubSeq(LongText, 1, SHORT_TEXT_MAX_LENGTH)})

Definition(type, required) == [name |-> "Col", type |-> type, isRequired |-> required]

\* the documents of the attribute_definitions collection validate_value is given
NumberDefs == {Definition("number", req) : req \in BOOLEAN} \cup {[name |-> "Col", type |-> "number"]}

SingleDefs == {Definition("single_select", req) @@ [options |-> opts] : req \in BOOLEAN, opts \in {<<Red, Blue>>, <<>>}} \cup {Definition("single_select", FALSE)}

MultiDefs == {Definition("multiple_select", req) @@ [options |-> opts] : req \in BOOLEAN, opts \in {<<<<"A">>, <<"B">>, <<"C">>>>, <<>>}} \cup {Definition("multiple_select", TRUE)}

TextDefs == {Definition(type, req) : type \in {"short_text", "long_text", "rich_text", "measure", "boolean"}, req \in BOOLEAN}

Args(value_str, attr_def, row_number) == [value_str |-> value_str, header_name |-> attr_def.name, attr_def |-> attr_def, row_number |-> row_number, done |-> FALSE]

ValidatorCalls ==
    {Args(v, d, i) : v \in NumberCells \cup BlankCells, d \in NumberDefs, i \in {0, 1}}
    \cup {Args(v, d, i) : v \in SingleCells \cup BlankCells, d \in SingleDefs, i \in {0, 1}}
    \cup {Args(v, d, i) : v \in MultiCells \cup BlankCells, d \in MultiDefs, i \in {0, 1}}
    \cup {Args(v, d, i) : v \in TextCells \cup BlankCells, d \in TextDefs, i \in {0, 1}}

InitValidate ==
    /\ jobs = <<>>
    /\ results = <<>>
    /\ attrDefs = StdAttrs
    /\ bucketSet = TRUE
    /\ clock = 1
    /\ pc = "idle"
    /\ idx = 0
    /\ batchLen = 0
    /\ rec = NoRecord
    /\ loc = [job_id |-> NoValue, db_client |-> FALSE, accepted |-> FALSE, clean |-> TRUE]
    /\ outcome = "none"
    /\ used = 0
    /\ faults = 0
    /\ last = NoLast
    /\ prev = NoPrev
    /\ request = NoRequest
    /\ response = NoResponse
    /\ call \in ValidatorCalls
    /\ attributes = {}
    /\ queue = <<>>
    /\ products = {}

\* validate_value is applied to the arguments
ApplyValidateValue ==
    /\ ~call.done
    /\ call' = [value_str |-> call.value_str, header_name |-> call.header_name, attr_def |-> call.attr_def, row_number |-> call.row_number,
                done |-> TRUE, result |-> validate_value(call.value_str, call.header_name, call.attr_def, call.row_number)]
    /\ UNCHANGED <<consumer, request, response, attributes, queue, products>>

\* the arguments of the next call
NextCall ==
    /\ call.done
    /\ call' = Args(call.value_str, call.attr_def, 1 - call.row_number)
    /\ UNCHANGED <<consumer, request, response, attributes, queue, products>>

NextValidate == ApplyValidateValue \/ NextCall

SpecValidate == InitValidate /\ [][NextValidate]_vars


\* ------------------------------------------------------------------------
\* lambda_attribute_management: create, update and delete of attribute
\* definitions. A collection is the set of its documents; _id is its key.
\* ------------------------------------------------------------------------

UpperLetters == <<"A", "B", "C", "D", "E", "F", "G", "H", "I", "J", "K", "L", "M", "N", "O", "P", "Q", "R", "S", "T", "U", "V", "W", "X", "Y", "Z">>

LowerLetters == <<"a", "b", "c", "d", "e", "f", "g", "h", "i", "j", "k", "l", "m", "n", "o", "p", "q", "r", "s", "t", "u", "v", "w", "x", "y", "z">>

\* str.lower(), one character
ToLower(c) == IF \E k \in 1..Len(UpperLetters) : UpperLetters[k] = c THEN LowerLetters[CHOOSE k \in 1..Len(UpperLetters) : UpperLetters[k] = c] ELSE c

\* str.replace(a, b) for one-character a and b
Replace(s, a, b) == [k \in 1..Len(s) |-> IF s[k] = a THEN b ELSE s[k]]

\* c.isalnum() or c == '_'
IdChar(c) == c = "_" \/ c \in Digits \/ \E k \in 1..Len(LowerLetters) : c \in {LowerLetters[k], UpperLetters[k]}

\* lines 96-98 of the create handler: the _id derived from the name
DeriveId(attribute_name) == SelectSeq(Replace(Replace([k \in 1..Len(Strip(attribute_name)) |-> ToLower(Strip(attribute_name)[k])], " ", "_"), "-", "_"), IdChar)

\* [opt.strip() for opt in options if opt.strip()]
CleanOptions(options) == SelectSeq(StripAll(options), NonEmpty)

\* json.loads of a flag of the body: the tokens true and false are the booleans
IsBool(token) == token \in {"true", "false"}

FlagOf(body, key, default) == IF key \in DOMAIN body THEN body[key] = "true" ELSE default

\* body.get(key) tested for truth, for a text or a list
Given(body, key) == key \in DOMAIN body /\ body[key] # <<>>

\* a JSON value of the body that is not text (a number, an object) where text is expected
NotAString == <<"<number>">>

\* a JSON value of the body that is not an array where the option list is expected
NotAList == <<<<"<object>">>>>

\* isinstance(value, str)
IsStr(value) == value # NotAString

\* isinstance(options, list) and all(isinstance(opt, str) for opt in options)
IsStrList(options) == options # NotAList /\ \A k \in 1..Len(options) : IsStr(options[k])

AllowedTypes == {"short_text", "long_text", "rich_text", "number", "single_select", "multiple_select", "measure"}

Ids(collection) == {d._id : d \in collection}

\* insert_one with no test of the key: a second document with the same _id is stored
InsertOne_NoKeyCheck(collection, document) == [duplicate |-> FALSE, collection |-> collection \cup {document}]

\* insert_one: DuplicateKeyError when a document with this _id is stored
InsertOne(collection, document) ==
    IF document._id \in Ids(collection) THEN [duplicate |-> TRUE, collection |-> collection]
    ELSE [duplicate |-> FALSE, collection |-> collection \cup {document}]

\* lines 101-132 of the create handler: the document to insert
NewDefinition(body, now) ==
    [_id |-> DeriveId(body.name), name |-> Strip(body.name), type |-> body.type,
     description |-> IF "description" \in DOMAIN body THEN Strip(body.description) ELSE <<>>,
     createdAt |-> now, updatedAt |-> now,
     isFilterable |-> FlagOf(body, "isFilterable", TRUE), isSortable |-> FlagOf(body, "isSortable", TRUE), isRequired |-> FlagOf(body, "isRequired", FALSE)]
    @@ (IF body.type \in {"single_select", "multiple_select"} THEN [options |-> CleanOptions(body.options)] ELSE <<>>)
    @@ (IF body.type = "measure" THEN [unit |-> Strip(body.unit)] ELSE <<>>)

\* the checks of lines 75-128 of the create handler: the error of the 400 answer, or none
CreateError(body) ==
    IF ~Given(body, "name") \/ "type" \notin DOMAIN body \/ body.type = NoValue THEN "Missing required fields: 'name' and 'type'."
    ELSE IF body.type \notin AllowedTypes THEN "Invalid attribute type"
    ELSE IF body.type \in {"single_select", "multiple_select"} /\ (~Given(body, "options") \/ ~IsStrList(body.options)) THEN "'options' must be an array of strings."
    ELSE IF body.type = "measure" /\ (~Given(body, "unit") \/ ~IsStr(body.unit) \/ Strip(body.unit) = <<>>) THEN "For type 'measure', 'unit' string is required."
    ELSE "none"

Created(coll, response_) == [coll |-> coll, response_ |-> response_]

\* lines 136-159: insert_one and the answer
InsertAnswer(collection, document, inserted, op_ok) ==
    IF ~op_ok THEN Created(collection, HttpResponse(500, [error |-> "Database operation error"]))
    ELSE IF inserted.duplicate THEN Created(collection, HttpResponse(409, [error |-> "already exists"]))
    ELSE Created(inserted.collection, HttpResponse(201, [message |-> "Attribute definition created successfully.", attribute |-> document]))

\* lambda_handler of lambda_create_attribute_definitions (lines 50-174)
CreateAnswer(collection, body, now, connected, op_ok) ==
    IF ~connected THEN Created(collection, HttpResponse(500, [error |-> "Failed to connect to database or setup collection"]))
    ELSE IF body = [malformed |-> TRUE] THEN Created(collection, HttpResponse(500, [error |-> "An unexpected server error occurred"]))
    ELSE IF CreateError(body) # "none" THEN Created(collection, HttpResponse(400, [error |-> CreateError(body)]))
    ELSE InsertAnswer(collection, NewDefinition(body, now), InsertOne(collection, NewDefinition(body, now)), op_ok)

\* urllib.parse.unquote_plus on a path parameter with no percent escape: '+' reads as a blank
UnquotePlus(s) == Replace(s, "+", " ")

\* the fields of the body an update may set (line 89)
AllowedToUpdate == {"options", "unit", "isFilterable", "isSortable", "isRequired", "description"}

Flags == {"isFilterable", "isSortable", "isRequired"}

\* update_payload built from every field of the body, allowed or not
UpdatePayload_AnyField(body, now) ==
    [key \in DOMAIN body |->
        IF key = "description" THEN Strip(body[key]) ELSE IF key \in Flags THEN body[key] = "true" ELSE body[key]]
    @@ [updatedAt |-> now]

\* lines 87-118: update_payload, before the checks that need the stored type
UpdatePayload(body, now) ==
    [key \in (DOMAIN body) \cap AllowedToUpdate |->
        IF key = "description" THEN Strip(body[key]) ELSE IF key \in Flags THEN body[key] = "true" ELSE body[key]]
    @@ [updatedAt |-> now]

\* the checks made before the stored document is read (lines 97-116)
UpdateBodyError(body) ==
    IF \E key \in (DOMAIN body) \cap Flags : ~IsBool(body[key]) THEN "must be a boolean"
    ELSE IF (DOMAIN body) \cap AllowedToUpdate = {} THEN "No updatable fields provided."
    ELSE "none"

\* the checks against the stored type, a unit taken for any type
UpdateTypeError_UnitAnywhere(payload, current_attribute_type) ==
    IF "options" \in DOMAIN payload /\ current_attribute_type \notin {"single_select", "multiple_select"} THEN "'options' field is not applicable"
    ELSE IF "options" \in DOMAIN payload /\ ~IsStrList(payload.options) THEN "'options' must be an array of strings."
    ELSE IF "unit" \in DOMAIN payload /\ (~IsStr(payload.unit) \/ Strip(payload.unit) = <<>>) THEN "'unit' must be a non-empty string."
    ELSE "none"

\* the checks against the stored type (lines 131-161)
UpdateTypeError(payload, current_attribute_type) ==
    IF "options" \in DOMAIN payload /\ current_attribute_type \notin {"single_select", "multiple_select"} THEN "'options' field is not applicable"
    ELSE IF "options" \in DOMAIN payload /\ ~IsStrList(payload.options) THEN "'options' must be an array of strings."
    ELSE IF "unit" \in DOMAIN payload /\ current_attribute_type # "measure" THEN "'unit' field is not applicable"
    ELSE IF "unit" \in DOMAIN payload /\ (~IsStr(payload.unit) \/ Strip(payload.unit) = <<>>) THEN "'unit' must be a non-empty string."
    ELSE "none"

\* lines 145 and 161: the options and the unit as they are stored
Cleaned(payload) ==
    (IF "options" \in DOMAIN payload THEN [options |-> CleanOptions(payload.options)] ELSE <<>>)
    @@ (IF "unit" \in DOMAIN payload THEN [unit |-> Strip(payload.unit)] ELSE <<>>)
    @@ payload

Stored(collection, id) == CHOOSE d \in collection : d._id = id

\* update_one({'_id': id}, {'$set': payload})
UpdateOne(collection, id, payload) == {IF d._id = id THEN payload @@ d ELSE d : d \in collection}

\* lines 120-201 of the update handler, for a body that passed the first checks;
\* failed is the store call that raises: none, find, update or refetch
UpdateStored(collection, id, payload, failed) ==
    IF failed = "find" THEN Created(collection, HttpResponse(500, [error |-> "Database operation error"]))
    ELSE IF id \notin Ids(collection) THEN Created(collection, HttpResponse(404, [error |-> "not found"]))
    ELSE IF UpdateTypeError(payload, Stored(collection, id).type) # "none" THEN Created(collection, HttpResponse(400, [error |-> UpdateTypeError(payload, Stored(collection, id).type)]))
    ELSE IF failed = "update" THEN Created(collection, HttpResponse(500, [error |-> "Database operation error"]))
    ELSE IF failed = "refetch" THEN Created(UpdateOne(collection, id, Cleaned(payload)), HttpResponse(500, [error |-> "Database operation error"]))
    ELSE Created(UpdateOne(collection, id, Cleaned(payload)),
                 HttpResponse(200, [message |-> "Attribute definition updated successfully.", attribute |-> Cleaned(payload) @@ Stored(collection, id)]))

\* lambda_handler of lambda_update_attribute_definitions (lines 53-216)
UpdateAnswer(collection, attribute_id_raw, body, now, connected, failed) ==
    IF ~connected THEN Created(collection, HttpResponse(500, [error |-> "Failed to connect to database or setup collection"]))
    ELSE IF attribute_id_raw = <<>> THEN Created(collection, HttpResponse(400, [error |-> "Missing 'attributeId' in path."]))
    ELSE IF body = [malformed |-> TRUE] THEN Created(collection, HttpResponse(500, [error |-> "An unexpected server error occurred"]))
    ELSE IF UpdateBodyError(body) # "none" THEN Created(collection, HttpResponse(400, [error |-> UpdateBodyError(body)]))
    ELSE UpdateStored(collection, UnquotePlus(attribute_id_raw), UpdatePayload(body, now), failed)

\* lambda_handler of lambda_delete_attribute_definitions (lines 54-115)
DeleteAnswer(collection, attribute_id_to_delete, connected, op_ok) ==
    IF ~connected THEN Created(collection, HttpResponse(500, [error |-> "Failed to connect to database or setup collection"]))
    ELSE IF attribute_id_to_delete = <<>> THEN Created(collection, HttpResponse(400, [error |-> "Missing 'attributeId' in path."]))
    ELSE IF ~op_ok THEN Created(collection, HttpResponse(500, [error |-> "Database operation error"]))
    ELSE IF attribute_id_to_delete \in Ids(collection)
    THEN Created({d \in collection : d._id # attribute_id_to_delete}, HttpResponse(200, [message |-> "deleted successfully"]))
    ELSE Created(collection, HttpResponse(404, [error |-> "not found"]))

\* the requests the attribute management handlers are given
MaxRequests == 3

NetWt == <<"N", "e", "t", " ", "W", "t">>

Size == <<" ", "S", "i", "z", "e", " ">>

Kg == <<"k", "g">>

CreateBodies ==
    {[name |-> NetWt, type |-> "measure", unit |-> Kg],
     [name |-> NetWt, type |-> "measure"],
     [name |-> NetWt, type |-> "short_text", description |-> <<" ", "d", " ">>],
     [name |-> <<"n", "e", "t", "-", "w", "t">>, type |-> "number", isRequired |-> "true"],
     [name |-> Size, type |-> "single_select", options |-> <<Red, <<" ", "B", "l", "u", "e">>, <<" ">>>>],
     [name |-> Size, type |-> "single_select"],
     [name |-> Size, type |-> "multiple_select", options |-> <<<<" ">>, <<>>>>],
     [name |-> <<"S", "i", "z", "e", "!">>, type |-> "multiple_select", options |-> <<<<"A">>, <<"B">>>>, isSortable |-> "false"],
     [name |-> Size, type |-> "colour"],
     [type |-> "number"],
     [malformed |-> TRUE]}

UpdateBodies ==
    {[options |-> <<<<"A">>, <<" ", "C">>>>],
     [unit |-> <<"c", "m", " ">>],
     [unit |-> <<" ">>, isRequired |-> "true"],
     [unit |-> NotAString],
     [options |-> NotAList, description |-> <<"d">>],
     [options |-> <<<<" ">>>>],
     [isRequired |-> "true", description |-> <<" ", "n", " ">>],
     [isSortable |-> "yes"],
     [type |-> "number", name |-> <<"X">>, _id |-> <<"x">>, createdAt |-> 0, isFilterable |-> "false"],
     [name |-> <<"X">>, type |-> "number"],
     [malformed |-> TRUE]}

PathIds == {<<"n", "e", "t", "_", "w", "t">>, <<"s", "i", "z", "e">>, <<"n", "e", "t", "+", "w", "t">>, <<>>}

\* the variables of the queue consumer other than the clock
consumerState == <<jobs, results, attrDefs, bucketSet, pc, idx, batchLen, rec, loc, outcome, used, faults, last, prev>>

\* an invocation of a handler: the collection and the answer it leaves
Answered(handler, asked, answer, store_up) ==
    /\ clock <= MaxRequests
    /\ clock' = clock + 1
    /\ request' = [handler |-> handler, store_up |-> store_up] @@ asked
    /\ attributes' = answer.coll
    /\ response' = answer.response_
    /\ UNCHANGED <<consumerState, call, queue, products>>

CreateAttribute(body, connected, op_ok) ==
    Answered("create_attribute", [body |-> body], CreateAnswer(attributes, body, clock, connected, op_ok), connected /\ op_ok)

UpdateAttribute(attribute_id_raw, body, failed) ==
    Answered("update_attribute", [attributeId |-> attribute_id_raw, body |-> body], UpdateAnswer(attributes, attribute_id_raw, body, clock, failed # "connect", failed), failed = "none")

DeleteAttribute(attribute_id_to_delete, connected, op_ok) ==
    Answered("delete_attribute", [attributeId |-> attribute_id_to_delete], DeleteAnswer(attributes, attribute_id_to_delete, connected, op_ok), connected /\ op_ok)

\* how the connection and the store operation of an invocation go: both succeed, or one of them fails
StoreCalls == {<<TRUE, TRUE>>, <<FALSE, TRUE>>, <<TRUE, FALSE>>}

NextAttributes ==
    \/ \E body \in CreateBodies, calls \in StoreCalls : CreateAttribute(body, calls[1], calls[2])
    \/ \E id \in PathIds, body \in UpdateBodies, failed \in {"none", "connect", "find", "update", "refetch"} : UpdateAttribute(id, body, failed)
    \/ \E id \in PathIds, calls \in StoreCalls : DeleteAttribute(id, calls[1], calls[2])

\* the state before the first request: the handlers that serve requests do not read the
\* configuration of the queue consumer, which is taken as set
InitServing == Init /\ bucketSet

SpecAttributes == InitServing /\ [][NextAttributes]_vars

\* ------------------------------------------------------------------------
\* lambda_initiate_s3_processing: POST of a bucket and a key, answered 202
\* once the message is on the processing queue
\* ------------------------------------------------------------------------

\* str(uuid.uuid4()): a token no earlier call returned
Uuid4(n) == [uuid |-> n]

\* message_payload without the submittedAt field
MessagePayload_NoSubmittedAt(body, job_id, s3_bucket_to_process, now) ==
    [jobId |-> job_id, s3Bucket |-> s3_bucket_to_process, s3Key |-> body.s3Key, originalFileName |-> Basename(body.s3Key),
     maxPreviewRows |-> IF "maxPreviewRows" \in DOMAIN body THEN body.maxPreviewRows ELSE 50]

\* message_payload (lines 56-63)
MessagePayload(body, job_id, s3_bucket_to_process, now) ==
    [jobId |-> job_id, s3Bucket |-> s3_bucket_to_process, s3Key |-> body.s3Key, originalFileName |-> Basename(body.s3Key),
     maxPreviewRows |-> IF "maxPreviewRows" \in DOMAIN body THEN body.maxPreviewRows ELSE 50,
     submittedAt |-> now]

\* send_message_params without the QueueUrl (lines 69-78): a FIFO queue is given the job as message group
SendParams(queue_url, message_payload) ==
    [MessageBody |-> Body(message_payload)] @@ (IF queue_url = "jobs.fifo" THEN [MessageGroupId |-> message_payload.jobId] ELSE <<>>)

Sent(q, response_) == [queue |-> q, response_ |-> response_]

\* lambda_handler of lambda_initiate_s3_processing (lines 20-104); a body that does not parse, or a
\* send_message that fails, ends in the except clause of line 98
InitiateAnswer(q, body, queue_url, bucket_env, now, send_ok) ==
    LET s3_bucket_to_process == IF bucket_env # NoValue THEN bucket_env ELSE IF "s3Bucket" \in DOMAIN body THEN body.s3Bucket ELSE NoValue
    IN IF queue_url = NoValue THEN Sent(q, HttpResponse(500, [error |-> "Server configuration error: SQS Queue not defined."]))
       ELSE IF "malformed" \in DOMAIN body THEN Sent(q, HttpResponse(500, [error |-> "An unexpected server error occurred"]))
       ELSE IF s3_bucket_to_process = NoValue THEN Sent(q, HttpResponse(400, [error |-> "Missing S3 bucket information."]))
       ELSE IF "s3Key" \notin DOMAIN body \/ body.s3Key = <<>> THEN Sent(q, HttpResponse(400, [error |-> "Missing required parameter: 's3Key'"]))
       ELSE IF ~send_ok THEN Sent(q, HttpResponse(500, [error |-> "An unexpected server error occurred"]))
       ELSE Sent(Append(q, SendParams(queue_url, MessagePayload(body, Uuid4(now), s3_bucket_to_process, now))),
                 HttpResponse(202, [message |-> "File processing request accepted and queued successfully. Checking status...", jobId |-> Uuid4(now)]))

\* the bodies of the initiation requests
InitiateBodies ==
    {[s3Bucket |-> "uploads", s3Key |-> <<"uploads", "good">>],
     [s3Bucket |-> "other", s3Key |-> <<"good">>, maxPreviewRows |-> 5],
     [s3Key |-> <<"uploads", "badcell">>],
     [s3Bucket |-> "uploads"],
     [s3Bucket |-> "uploads", s3Key |-> <<>>],
     [malformed |-> TRUE]}

InitiateProcessing(body, queue_url, bucket_env, send_ok) ==
    /\ clock <= MaxRequests
    /\ clock' = clock + 1
    /\ request' = [handler |-> "initiate_processing", body |-> body, queue_url |-> queue_url, bucket_env |-> bucket_env, store_up |-> send_ok]
    /\ queue' = InitiateAnswer(queue, body, queue_url, bucket_env, clock, send_ok).queue
    /\ response' = InitiateAnswer(queue, body, queue_url, bucket_env, clock, send_ok).response_
    /\ UNCHANGED <<consumerState, call, attributes, products>>

NextInitiate ==
    \E body \in InitiateBodies, queue_url \in {NoValue, "jobs", "jobs.fifo"}, bucket_env \in {NoValue, "uploads"}, send_ok \in BOOLEAN :
        InitiateProcessing(body, queue_url, bucket_env, send_ok)

SpecInitiate == InitServing /\ [][NextInitiate]_vars

\* ------------------------------------------------------------------------
\* lambda_get_products: GET /products, one page of the matching products
\* ------------------------------------------------------------------------

\* int(s) of a query string value: blanks around it and one sign are accepted, then
\* decimal digits only; anything else is a ValueError (ok = FALSE)
IntOfStr(s) ==
    LET t == Strip(s)
        signed == t # <<>> /\ t[1] \in {"+", "-"}
        digits == IF signed THEN Tail(t) ELSE t
    IN IF digits = <<>> \/ ~AllDigits(digits) THEN [ok |-> FALSE, i |-> 0]
       ELSE [ok |-> TRUE, i |-> (IF signed /\ t[1] = "-" THEN -1 ELSE 1) * DigitsVal(digits, 0)]

\* int(query_params.get(name, default)) (lines 141-142)
IntParam(param, default) == IF param.t = "none" THEN [ok |-> TRUE, i |-> default] ELSE IntOfStr(param.s)

\* lines 140-149 without the upper limit of 100
PageLimit_NoCap(page_param, limit_param) ==
    IF IntParam(page_param, 1).ok /\ IntParam(limit_param, 10).ok
    THEN [page |-> IF IntParam(page_param, 1).i < 1 THEN 1 ELSE IntParam(page_param, 1).i,
          limit |-> IF IntParam(limit_param, 10).i < 1 THEN 1 ELSE IntParam(limit_param, 10).i]
    ELSE [page |-> 1, limit |-> 10]

\* lines 140-149: page and limit as used; a ValueError of either int() gives both defaults
PageLimit(page_param, limit_param) ==
    IF IntParam(page_param, 1).ok /\ IntParam(limit_param, 10).ok
    THEN [page |-> IF IntParam(page_param, 1).i < 1 THEN 1 ELSE IntParam(page_param, 1).i,
          limit |-> IF IntParam(limit_param, 10).i < 1 THEN 1
                    ELSE IF IntParam(limit_param, 10).i > 100 THEN 100 ELSE IntParam(limit_param, 10).i]
    ELSE [page |-> 1, limit |-> 10]

\* math.ceil(total / limit) for limit > 0 (line 187)
CeilDiv(total, limit) == (total + limit - 1) \div limit

\* find(filter_query).skip(skip).limit(limit) (line 170) on the matching documents,
\* numbered 1..total in the order of the cursor
PageOf(total, skip, limit) == [k \in 1..(IF skip >= total THEN 0 ELSE IF total - skip < limit THEN total - skip ELSE limit) |-> skip + k]

\* the body of the 200 answer (lines 196-208)
ProductsPage(pl, total) ==
    [message |-> "Products retrieved successfully",
     data |-> PageOf(total, (pl.page - 1) * pl.limit, pl.limit),
     pagination |-> [currentPage |-> pl.page, totalPages |-> CeilDiv(total, pl.limit), totalItems |-> total,
                     itemsPerPage |-> pl.limit, hasNextPage |-> pl.page < CeilDiv(total, pl.limit), hasPrevPage |-> pl.page > 1]]

\* lambda_handler of lambda_get_products (lines 116-226), applied to the request at hand;
\* total: the number of products that match the filter of the request
GetProducts(page_param, limit_param, total, connected, find_ok) ==
    /\ request.handler = "get_products" /\ response = NoResponse
    /\ request' = [request EXCEPT !.store_up = connected /\ find_ok]
    /\ response' = IF ~connected THEN HttpResponse(500, [error |-> "Failed to connect to database"])
                   ELSE IF ~find_ok THEN HttpResponse(500, [error |-> "Database operation error"])
                   ELSE HttpResponse(200, ProductsPage(PageLimit(page_param, limit_param), total))
    /\ UNCHANGED <<consumer, call, attributes, queue, products>>

\* the values of the page and limit query parameters: absent, or a text
PageParams ==
    {PyNone} \cup {PyStr(s) : s \in {<<"1">>, <<"2">>, <<"3">>, <<"0">>, <<"-", "1">>, <<"a">>, <<"2", ".", "0">>, <<" ", "3", " ">>,
                                   <<"+", "2">>, <<>>, <<"1", "0", "0">>, <<"1", "0", "1">>, <<"-">>, <<"0", "5">>}}

\* the numbers of products that match
Totals == {0, 1, 2, 9, 10, 11, 100, 101, 201}

\* a product-list request has arrived
InitProductsPage ==
    /\ jobs = <<>>
    /\ results = <<>>
    /\ attrDefs = StdAttrs
    /\ bucketSet = TRUE
    /\ clock = 1
    /\ pc = "idle"
    /\ idx = 0
    /\ batchLen = 0
    /\ rec = NoRecord
    /\ loc = [job_id |-> NoValue, db_client |-> FALSE, accepted |-> FALSE, clean |-> TRUE]
    /\ outcome = "none"
    /\ used = 0
    /\ faults = 0
    /\ last = NoLast
    /\ prev = NoPrev
    /\ request \in {[handler |-> "get_products", page |-> page_param, limit |-> limit_param, total |-> total, store_up |-> TRUE] :
                        page_param \in PageParams, limit_param \in PageParams, total \in Totals}
    /\ response = NoResponse
    /\ call = NoCall
    /\ attributes = {}
    /\ queue = <<>>
    /\ products = {}

NextProductsPage ==
    \E calls \in StoreCalls : GetProducts(request.page, request.limit, request.total, calls[1], calls[2])

SpecProductsPage == InitProductsPage /\ [][NextProductsPage]_vars

\* ------------------------------------------------------------------------
\* The products collection: lambda_update_products (bulk upsert),
\* lambda_approve_create_products (save of approved rows), lambda_ai_enrichment
\* (preview of suggestions)
\* ------------------------------------------------------------------------

\* datetime.now(timezone.utc) at the moment at
Datetime(at) == [t |-> "datetime", at |-> at]

\* datetime.isoformat(): a str, date and time joined by T
IsoFormat(at) == [t |-> "str", s |-> <<"d", "T", "t">>, at |-> at]

\* str(datetime): a str, date and time joined by a blank
StrOfDatetime(at) == [t |-> "str", s |-> <<"d", " ", "t">>, at |-> at]

\* the name uuid is not bound in lambda_approve_create_products (lines 1-6 import json, os,
\* logging, pymongo and datetime only): evaluating str(uuid.uuid4()) raises NameError
NameErrorRaised == [t |-> "raise", exception |-> "NameError", name |-> "uuid"]

\* the dictionary {'value': ..., 'unit': ...} of a consolidated measure
Measure(value, unit) == [t |-> "measure", value |-> value, unit |-> unit]

\* an item of a JSON list that is not an object
NotADict == [notadict |-> TRUE]

IsDict(item) == "notadict" \notin DOMAIN item

\* dict.get(key), None when the key is absent
GetValue(doc, key) == IF key \in DOMAIN doc THEN doc[key] ELSE PyNone

\* the dictionary without the given keys
Without(doc, keys) == [k \in DOMAIN doc \ keys |-> doc[k]]

\* the values Python's "or" skips
Falsy(v) == v.t = "none" \/ (v.t = "str" /\ v.s = <<>>) \/ (v.t = "int" /\ v.i = 0) \/ (v.t = "float" /\ v.m = 0) \/ (v.t = "list" /\ v.l = <<>>)

\* update_one(filter by _id, {'$set': ..., '$setOnInsert': ...}, upsert=True) on the collection
ApplyUpsert(coll, op) ==
    IF \E d \in coll : d._id = op.id
    THEN {IF d._id = op.id THEN op.set @@ d ELSE d : d \in coll}
    ELSE coll \cup {op.set @@ op.setOnInsert @@ [_id |-> op.id]}

\* the collection after the first n operations of an ordered bulk_write
RECURSIVE BulkApplied(_, _, _)
BulkApplied(coll, ops, n) == IF n = 0 THEN coll ELSE ApplyUpsert(BulkApplied(coll, ops, n - 1), ops[n])

\* upserted_count + modified_count of the first n operations
RECURSIVE SavedCount(_, _, _)
SavedCount(coll, ops, n) ==
    IF n = 0 THEN 0
    ELSE SavedCount(coll, ops, n - 1) + (IF BulkApplied(coll, ops, n) # BulkApplied(coll, ops, n - 1) THEN 1 ELSE 0)

\* collection.bulk_write(bulk_operations): operation fail_at fails (none when 0 or beyond
\* the list), the operations before it have been applied
BulkWrite(coll, ops, fail_at) ==
    IF fail_at \in 1..Len(ops)
    THEN Created(BulkApplied(coll, ops, fail_at - 1), HttpResponse(500, [error |-> "Database operation error"]))
    ELSE Created(BulkApplied(coll, ops, Len(ops)), HttpResponse(200, [saved |-> SavedCount(coll, ops, Len(ops))]))

\* lambda_update_products lines 96-131: the operation for one item of the list
UpdateOp(product_data, now) ==
    [id |-> product_data._id,
     set |-> [updatedAt |-> IsoFormat(now)] @@ Without(product_data, {"createdAt"}),
     setOnInsert |-> [createdAt |-> IF "createdAt" \in DOMAIN product_data THEN product_data.createdAt ELSE IsoFormat(now)]]

\* the items lambda_update_products keeps (line 97)
UpdateItems(products_to_save) ==
    LET valid(item) == IsDict(item) /\ "_id" \in DOMAIN item
    IN SelectSeq(products_to_save, valid)

\* lambda_handler of lambda_update_products, lines 69-169
UpdateProductsAnswer(coll, body, now, connected, fail_at) ==
    LET items == UpdateItems(body.products)
        ops == [k \in 1..Len(items) |-> UpdateOp(items[k], now)]
        written == BulkWrite(coll, ops, fail_at)
    IN IF ~connected THEN Created(coll, HttpResponse(503, [error |-> "Failed to connect to database"]))
       ELSE IF "malformed" \in DOMAIN body THEN Created(coll, HttpResponse(500, [error |-> "An unexpected server error occurred"]))
       ELSE IF "products" \notin DOMAIN body \/ body.products = <<>>
            THEN Created(coll, HttpResponse(400, [error |-> "Request body must contain a 'products' array."]))
       ELSE IF ops = <<>> THEN Created(coll, HttpResponse(200, [message |-> "No valid products to update.", productsUpdated |-> 0]))
       ELSE IF written.response_.statusCode # 200 THEN written
       ELSE Created(written.coll, HttpResponse(200, [productsUpdated |-> written.response_.body.saved,
                                                      updatedProductIds |-> [k \in 1..Len(items) |-> items[k]._id]]))

\* lambda_approve_create_products line 117: Barcode, else ProductName, else str(uuid.uuid4()),
\* which is evaluated only when both are falsy
ApproveId(product_data) ==
    IF ~Falsy(GetValue(product_data, "Barcode")) THEN product_data.Barcode
    ELSE IF ~Falsy(GetValue(product_data, "ProductName")) THEN product_data.ProductName
    ELSE NameErrorRaised

\* lines 112-119: the copy with _id, createdAt, updatedAt and importSource set
WithMetadata(product_data, s3_key_source, now) ==
    [_id |-> ApproveId(product_data), createdAt |-> Datetime(now), updatedAt |-> Datetime(now), importSource |-> s3_key_source] @@ product_data

\* lines 129-134 for one measure attribute
Consolidate(doc, attr_name, val_key, unit_key) ==
    IF val_key \in DOMAIN doc /\ unit_key \in DOMAIN doc
    THEN (attr_name :> Measure(doc[val_key], doc[unit_key])) @@ Without(doc, {val_key, unit_key})
    ELSE doc

\* lines 122-134
ConsolidateMeasures(doc) ==
    Consolidate(Consolidate(Consolidate(doc, "ItemWeight", "ItemWeightValue", "ItemWeightUnit"), "Width", "WidthValue", "WidthUnit"),
                "Height", "HeightValue", "HeightUnit")

\* lines 138-149 for one value: a str of digits becomes an int, another str that float()
\* accepts becomes a float, everything else is kept
ConvertValue(v) ==
    IF v.t # "str" THEN v
    ELSE IF v.s # <<>> /\ AllDigits(v.s) THEN PyInt(DigitsVal(v.s, 0))
    ELSE IF FloatOk(Strip(v.s)) THEN FloatValue(Strip(v.s))
    ELSE v

\* lines 108-151: the document saved for one approved row
ProcessedProduct(product_data, s3_key_source, now) ==
    LET doc == ConsolidateMeasures(WithMetadata(product_data, s3_key_source, now))
    IN [k \in DOMAIN doc |-> ConvertValue(doc[k])]

\* lines 164-178: the operation for one processed document
ApproveOp(prod_doc) == [id |-> prod_doc._id, set |-> Without(prod_doc, {"createdAt"}), setOnInsert |-> [createdAt |-> prod_doc.createdAt]]

\* the items lambda_approve_create_products keeps (line 107)
ApproveItems(products_to_save) ==
    LET valid(item) == IsDict(item)
    IN SelectSeq(products_to_save, valid)

\* lambda_handler of lambda_approve_create_products, lines 68-213
ApproveSaveAnswer(coll, body, now, connected, fail_at) ==
    LET s3_key_source == IF "s3Key" \in DOMAIN body THEN body.s3Key ELSE PyStr(<<"unknown_source_csv">>)
        items == ApproveItems(body.products)
        ops == [k \in 1..Len(items) |-> ApproveOp(ProcessedProduct(items[k], s3_key_source, now))]
        written == BulkWrite(coll, ops, fail_at)
        raised == \E k \in 1..Len(items) : ApproveId(items[k]) = NameErrorRaised
    IN IF ~connected THEN Created(coll, HttpResponse(500, [error |-> "Failed to connect to database"]))
       ELSE IF "malformed" \in DOMAIN body THEN Created(coll, HttpResponse(500, [error |-> "An unexpected server error occurred"]))
       ELSE IF "products" \notin DOMAIN body \/ body.products = <<>>
            THEN Created(coll, HttpResponse(400, [error |-> "Request body must contain a 'products' array."]))
       ELSE IF raised THEN Created(coll, HttpResponse(500, [error |-> "An unexpected server error occurred"]))
       ELSE IF ops = <<>> THEN Created(coll, HttpResponse(200, [message |-> "No valid products to save.", productsSaved |-> 0]))
       ELSE IF written.response_.statusCode # 200 THEN written
       ELSE Created(written.coll, HttpResponse(200, [productsSaved |-> written.response_.body.saved]))

\* a write request to the products collection has been answered
ProductsAnswered(handler, body, answer, store_up) ==
    /\ clock <= MaxRequests
    /\ clock' = clock + 1
    /\ request' = [handler |-> handler, body |-> body, at |-> clock, store_up |-> store_up]
    /\ products' = answer.coll
    /\ response' = answer.response_
    /\ UNCHANGED <<consumerState, call, attributes, queue>>

UpdateProducts(body, connected, fail_at) ==
    ProductsAnswered("update_products", body, UpdateProductsAnswer(products, body, clock, connected, fail_at), connected /\ fail_at = 0)

ApproveSave(body, connected, fail_at) ==
    ProductsAnswered("approve_save", body, ApproveSaveAnswer(products, body, clock, connected, fail_at), connected /\ fail_at = 0)

TARGET_ENRICHMENT_ATTRIBUTE_TYPES == {"short_text", "long_text", "rich_text"}

\* should_enrich (lines 128-131)
ShouldEnrich(attr_def, current_value) ==
    /\ attr_def.type \in TARGET_ENRICHMENT_ATTRIBUTE_TYPES
    /\ current_value.t = "none" \/ (current_value.t = "str" /\ Strip(current_value.s) = <<>>)

\* generate_mock_suggestion: a text that is never blank, made from the name and the type
MockSuggestion(attr_name, attr_type) == PyStr(<<"[MOCK]", attr_type, attr_name>>)

\* ai_suggestions_made for a product (lines 126-150)
Suggestions(product, definitions) ==
    [attr_name \in {n \in DOMAIN definitions : ShouldEnrich(definitions[n], GetValue(product, n))} |-> MockSuggestion(attr_name, definitions[attr_name].type)]

RECURSIVE DigitsOf(_)
DigitsOf(n) == IF n < 10 THEN <<CHOOSE c \in Digits : DigitVal(c) = n>> ELSE Append(DigitsOf(n \div 10), CHOOSE c \in Digits : DigitVal(c) = n % 10)

\* str(x) of an identifier that is not a str (line 154)
StrOf(v) == IF v.t = "int" /\ v.i >= 0 THEN PyStr(DigitsOf(v.i)) ELSE IF v.t = "str" THEN v ELSE PyStr(<<"<str>">>)

\* json.loads(json.dumps(product, default=str)) (line 120): a datetime comes back as its text
JsonRoundTrip(product) == [k \in DOMAIN product |-> IF product[k].t = "datetime" THEN StrOfDatetime(product[k].at) ELSE product[k]]

\* product_preview when suggestions have been made (lines 120, 146, 153-157)
PreviewData(product, suggestions) ==
    [_id |-> StrOf(product._id)] @@ suggestions @@ JsonRoundTrip(product)

\* the entry appended to enriched_products_preview (lines 159-164)
PreviewEntry(product_id_str, product, suggestions) ==
    [_id |-> product_id_str,
     originalProductName |-> IF "name" \in DOMAIN product THEN product.name ELSE IF "ProductName" \in DOMAIN product THEN product.ProductName ELSE PyStr(<<"N/A">>),
     enrichedProductData |-> PreviewData(product, suggestions),
     aiSuggestions |-> suggestions]

\* the identifiers in the order of the request, each once (lines 112-114)
RECURSIVE Distinct(_)
Distinct(ids) ==
    IF ids = <<>> THEN <<>>
    ELSE LET before == Distinct(SubSeq(ids, 1, Len(ids) - 1))
         IN IF \E k \in 1..Len(before) : before[k] = ids[Len(ids)] THEN before ELSE Append(before, ids[Len(ids)])

\* enriched_products_preview (lines 109-164): the products found for which a suggestion was made
RECURSIVE Previews(_, _, _)
Previews(coll, definitions, ids) ==
    IF ids = <<>> THEN <<>>
    ELSE LET found == {d \in coll : d._id = Head(ids)}
         IN IF found = {} \/ DOMAIN Suggestions(CHOOSE d \in found : TRUE, definitions) = {} THEN Previews(coll, definitions, Tail(ids))
            ELSE <<PreviewEntry(Head(ids), CHOOSE d \in found : TRUE, Suggestions(CHOOSE d \in found : TRUE, definitions))>> \o Previews(coll, definitions, Tail(ids))

\* lambda_handler of lambda_ai_enrichment, lines 92-191; definitions: the attribute
\* definitions by name, empty when get_attribute_definitions could not read them
EnrichAnswer(coll, definitions, body, connected, defs_ok, find_ok) ==
    IF ~connected THEN HttpResponse(503, [error |-> "Failed to connect to database"])
    ELSE IF "malformed" \in DOMAIN body THEN HttpResponse(500, [error |-> "An unexpected server error occurred"])
    ELSE IF "productIds" \notin DOMAIN body \/ body.productIds = <<>> THEN HttpResponse(400, [error |-> "Request body must contain a 'productIds' array."])
    ELSE IF ~defs_ok \/ DOMAIN definitions = {} THEN HttpResponse(500, [error |-> "Failed to load attribute definitions for enrichment."])
    ELSE IF ~find_ok THEN HttpResponse(500, [error |-> "Database operation error"])
    ELSE HttpResponse(200, [message |-> "Enrichment preview (MOCKED AI) generated", enrichedProductsPreview |-> Previews(coll, definitions, Distinct(body.productIds))])

\* the preview handler with the store kept as a side effect: every preview is written back
EnrichPreview_Persist(body, connected, defs_ok, find_ok) ==
    /\ request' = [handler |-> "ai_enrichment", body |-> body, at |-> clock, store_up |-> connected /\ defs_ok /\ find_ok]
    /\ response' = EnrichAnswer(products, attrDefs, body, connected, defs_ok, find_ok)
    /\ products' = IF EnrichAnswer(products, attrDefs, body, connected, defs_ok, find_ok).statusCode = 200
                   THEN LET previews == EnrichAnswer(products, attrDefs, body, connected, defs_ok, find_ok).body.enrichedProductsPreview
                        IN {IF \E k \in 1..Len(previews) : previews[k]._id = d._id
                            THEN Suggestions(d, attrDefs) @@ d ELSE d : d \in products}
                   ELSE products
    /\ UNCHANGED <<consumer, call, attributes, queue>>

\* an invocation of lambda_ai_enrichment: it reads the two collections and answers
EnrichPreview(body, connected, defs_ok, find_ok) ==
    /\ request' = [handler |-> "ai_enrichment", body |-> body, at |-> clock, store_up |-> connected /\ defs_ok /\ find_ok]
    /\ response' = EnrichAnswer(products, attrDefs, body, connected, defs_ok, find_ok)
    /\ UNCHANGED <<consumer, call, attributes, queue, products>>

\* the attribute definitions of the product catalogue, by name
ProductAttrs ==
    [ProductName |-> [name |-> "ProductName", type |-> "short_text", isRequired |-> TRUE],
     Description |-> [name |-> "Description", type |-> "long_text", isRequired |-> FALSE],
     Notes       |-> [name |-> "Notes", type |-> "rich_text", isRequired |-> FALSE],
     Price       |-> [name |-> "Price", type |-> "number", isRequired |-> FALSE],
     Color       |-> [name |-> "Color", type |-> "single_select", options |-> << <<"R", "e", "d">> >>, isRequired |-> FALSE]]

\* product identifiers used by the requests
Pid1 == PyStr(<<"p", "1">>)

Pid2 == PyStr(<<"0", "0", "7">>)

\* the bodies of the bulk upsert requests
UpdateProductBodies ==
    {[products |-> <<[_id |-> Pid1, ProductName |-> PyStr(Widget), Price |-> PyInt(5), Description |-> PyStr(<<" ">>)]>>],
     [products |-> <<[_id |-> Pid1, Price |-> PyStr(<<"7">>), Color |-> PyNone, createdAt |-> IsoFormat(0)], NotADict,
                     [_id |-> Pid2, ProductName |-> PyStr(Gadget), Description |-> PyStr(<<"o", "k">>), Notes |-> PyStr(<<>>)]>>],
     [products |-> <<[ProductName |-> PyStr(Gadget)]>>],
     [products |-> <<>>],
     [malformed |-> TRUE]}

\* the bodies of the save requests for approved rows
ApproveBodies ==
    {[products |-> <<[Barcode |-> Pid2, ProductName |-> PyStr(Widget), Price |-> PyStr(<<"1", "2", ".", "5">>)]>>, s3Key |-> PyStr(<<"u", ".", "c", "s", "v">>)],
     [products |-> <<[ProductName |-> PyStr(Gadget), Color |-> PyStr(<<"R", "e", "d">>), ItemWeightValue |-> PyInt(2), ItemWeightUnit |-> PyStr(<<"k", "g">>)]>>],
     [products |-> <<[ProductName |-> PyStr(Widget), Color |-> PyStr(<<"R", "e", "d">>)], [Description |-> PyNone, Price |-> PyInt(3)]>>],
     [products |-> <<[Barcode |-> PyStr(<<"p", "1">>), ProductName |-> PyStr(<<>>), Notes |-> PyStr(<<"n">>)], NotADict>>],
     [s3Key |-> PyStr(<<"u", ".", "c", "s", "v">>)]}

\* the bodies of the preview requests
EnrichBodies ==
    {[productIds |-> <<Pid1, Pid2, Pid1>>],
     [productIds |-> <<PyInt(7), PyStr(Gadget), PyStr(<<"n", "o">>)>>],
     [productIds |-> <<>>]}

NextProducts ==
    \/ \E body \in UpdateProductBodies, connected \in BOOLEAN, fail_at \in 0..2 : UpdateProducts(body, connected, fail_at)
    \/ \E body \in ApproveBodies, connected \in BOOLEAN, fail_at \in 0..2 : ApproveSave(body, connected, fail_at)
    \/ \E body \in EnrichBodies, connected \in BOOLEAN, defs_ok \in BOOLEAN, find_ok \in BOOLEAN : EnrichPreview(body, connected, defs_ok, find_ok)

\* the product handlers start on an empty collection, with the catalogue defined
InitProducts ==
    /\ jobs = <<>>
    /\ results = <<>>
    /\ attrDefs = ProductAttrs
    /\ bucketSet = TRUE
    /\ clock = 1
    /\ pc = "idle"
    /\ idx = 0
    /\ batchLen = 0
    /\ rec = NoRecord
    /\ loc = [job_id |-> NoValue, db_client |-> FALSE, accepted |-> FALSE, clean |-> TRUE]
    /\ outcome = "none"
    /\ used = 0
    /\ faults = 0
    /\ last = NoLast
    /\ prev = NoPrev
    /\ request = NoRequest
    /\ response = NoResponse
    /\ call = NoCall
    /\ attributes = {}
    /\ queue = <<>>
    /\ products = {}

SpecProducts == InitProducts /\ [][NextProducts]_vars

\* ------------------------------------------------------------------------
\* Deletion of a product (lambda_delete_products.py)
\* ------------------------------------------------------------------------

\* the text of an identifier as it stands in the path of a request
PathParam(id) == StrOf(id).s

\* pathParameters without productId, or with an empty one
NoProductId == <<>>

\* lambda_handler of lambda_delete_products, lines 60-123: the filter of delete_one is
\* the decoded text of the path parameter, a str
DeleteProductAnswer(coll, product_id_to_delete_raw, connected, delete_ok) ==
    LET product_id_to_delete_decoded == PyStr(UnquotePlus(product_id_to_delete_raw))
        matched == {d \in coll : d._id = product_id_to_delete_decoded}
    IN IF ~connected THEN Created(coll, HttpResponse(503, [error |-> "Failed to connect to database"]))
       ELSE IF product_id_to_delete_raw = NoProductId THEN Created(coll, HttpResponse(400, [error |-> "Missing 'productId' in path."]))
       ELSE IF ~delete_ok THEN Created(coll, HttpResponse(500, [error |-> "Database operation error"]))
       ELSE IF matched # {} THEN Created(coll \ matched, HttpResponse(200, [message |-> "deleted", productId |-> product_id_to_delete_decoded]))
       ELSE Created(coll, HttpResponse(404, [error |-> "not found", productId |-> product_id_to_delete_decoded]))

\* a delete request has been answered
DeleteProduct(product_id_to_delete_raw, connected, delete_ok) ==
    /\ clock <= MaxRequests
    /\ clock' = clock + 1
    /\ request' = [handler |-> "delete_product", productId |-> product_id_to_delete_raw, at |-> clock, store_up |-> connected /\ delete_ok]
    /\ products' = DeleteProductAnswer(products, product_id_to_delete_raw, connected, delete_ok).coll
    /\ response' = DeleteProductAnswer(products, product_id_to_delete_raw, connected, delete_ok).response_
    /\ UNCHANGED <<consumerState, call, attributes, queue>>

\* the path parameters of the delete requests: the identifier of a stored product, as
\* text and with a blank written as '+', an identifier no product has, and none
DeletePaths == {PathParam(d._id) : d \in products} \cup {Replace(PathParam(d._id), " ", "+") : d \in products} \cup {<<"n", "o">>, NoProductId}

\* rows are approved and saved, products are deleted
NextDelete ==
    \/ \E body \in ApproveBodies, connected \in BOOLEAN, fail_at \in 0..1 : ApproveSave(body, connected, fail_at)
    \/ \E raw \in DeletePaths, connected \in BOOLEAN, delete_ok \in BOOLEAN : DeleteProduct(raw, connected, delete_ok)

SpecDelete == InitProducts /\ [][NextDelete]_vars

\* ------------------------------------------------------------------------
\* Duplicate delivery: two invocations of the consumer work on the same message
\* ------------------------------------------------------------------------

\* the messages delivered twice: a clean file, a file with a rejected cell, a file the
\* csv module rejects, a file that is not text
DuplicateRecords == {Body(Payload("jobA", n, 0)) : n \in {"good", "badcell", "broken", "binary"}}

\* the invocation that is not at the processor: its position and its locals
Suspended(at, record_index, n, record, locals, how, finished) ==
    [pc |-> at, idx |-> record_index, batchLen |-> n, rec |-> record, loc |-> locals, outcome |-> how, last |-> finished]

InitDuplicate ==
    /\ Init
    /\ bucketSet

\* the queue hands the message to an invocation that is not running: at-least-once
\* delivery, as many times as the bound on the entries allows
DeliverDuplicate == Deliver(1)

\* the processor turns to the other invocation: between any two store or blob
\* operations of one invocation the other may run
Switch ==
    /\ call' = Suspended(pc, idx, batchLen, rec, loc, outcome, last)
    /\ pc' = IF call = NoCall THEN "idle" ELSE call.pc
    /\ idx' = IF call = NoCall THEN 0 ELSE call.idx
    /\ batchLen' = IF call = NoCall THEN 0 ELSE call.batchLen
    /\ rec' = IF call = NoCall THEN NoRecord ELSE call.rec
    /\ loc' = IF call = NoCall THEN [job_id |-> NoValue, db_client |-> FALSE, accepted |-> FALSE, clean |-> TRUE] ELSE call.loc
    /\ outcome' = IF call = NoCall THEN "none" ELSE call.outcome
    /\ last' = IF call = NoCall THEN NoLast ELSE call.last
    /\ UNCHANGED <<jobs, results, attrDefs, bucketSet, clock, used, faults, prev, request, response, attributes, queue, products>>

\* both invocations read the same message, and no infrastructure call fails
NextDuplicate ==
    \/ DeliverDuplicate
    \/ \E r \in DuplicateRecords : rec \in {NoRecord, r} /\ (IF call = NoCall THEN TRUE ELSE call.rec \in {NoRecord, r}) /\ StartEntry(r, TRUE, TRUE)
    \/ LogInitial(TRUE)
    \/ LoadAttributes(TRUE, TRUE)
    \/ Download(TRUE)
    \/ Validate(TRUE)
    \/ PutResult(TRUE, TRUE)
    \/ FinalUpdate(TRUE)
    \/ Except(TRUE)
    \/ Return
    \/ Switch

SpecDuplicate == InitDuplicate /\ [][NextDuplicate]_vars

\* ------------------------------------------------------------------------
\* Properties
\* ------------------------------------------------------------------------

\* the handler has finished with the record `last` and has not started another
Finished == pc \in {"loop", "idle"} /\ last.rec.body = "json"

LastJob == Get(last.rec.payload, "jobId")

LastObject == GetObject(Get(last.rec.payload, "s3Bucket"), GetKey(last.rec.payload))

Completed == {"COMPLETED", "COMPLETED_WITH_ISSUES"}

\* C1 (as stated): once a job's status is COMPLETED, COMPLETED_WITH_ISSUES or FAILED,
\* no step of the consumer makes it PROCESSING again.
C1_NeverBackToProcessing ==
    [][\A j \in DOMAIN jobs : jobs[j].status \in Terminal => jobs'[j].status # "PROCESSING"]_vars

\* C1 (amended): a terminal status becomes PROCESSING again only by the initial upsert
\* (log_initial_job_status) of a later delivery of a message with that job's identifier;
\* no other step, and no delivery for another job, takes a job back to PROCESSING.
C1_BackToProcessingOnlyByRedelivery ==
    [][\A j \in DOMAIN jobs : (jobs[j].status \in Terminal /\ jobs'[j].status = "PROCESSING")
                                 => (pc = "log_initial" /\ pc' = "attributes" /\ loc.job_id = j)]_vars

\* a redelivery has put a job that had reached a terminal status back to PROCESSING
C1_Witness ==
    /\ pc = "attributes"
    /\ prev.rec.body = "json"
    /\ Get(prev.rec.payload, "jobId") = loc.job_id
    /\ "status" \in DOMAIN prev.job
    /\ prev.job.status \in Terminal
    /\ jobs[loc.job_id].status = "PROCESSING"

\* C2: when the file was downloaded and parsed and the result written, the terminal
\* status is COMPLETED exactly when the result has no validation error and no ignored
\* header, at least one row was read and every row read gave a product; otherwise it is
\* COMPLETED_WITH_ISSUES, and never FAILED (the status stays PROCESSING only when the
\* store rejected the write of the terminal status).
C2_TerminalStatusRule ==
    (Finished /\ last.path = "done") =>
        LET art == results[ResultKey(LastJob)]
            rows_read == IF art.message.kind = "processed" THEN Len(LastObject.rows) ELSE 0
            clean == art.validationErrors = <<>> /\ art.ignoredHeaders = <<>> /\ rows_read > 0 /\ Len(art.products) = rows_read
            status == jobs[LastJob].status
        IN /\ last.accepted => (status \in Completed /\ (status = "COMPLETED" <=> clean))
           /\ ~last.accepted => status = "PROCESSING"

\* a file with one valid row and no ignored header has been processed to COMPLETED
C2_Witness ==
    /\ Finished /\ last.path = "done" /\ last.accepted
    /\ jobs[LastJob].status = "COMPLETED"
    /\ Len(results[ResultKey(LastJob)].products) = 1

\* C3 (as stated): when the handler raises, every record of the batch has been
\* processed: the failure is raised only after the loop over the batch.
C3_RaisedOnlyAfterTheLoop == outcome = "raised" => last.left = 0

\* the logical content of a result: what does not depend on the time of processing
Logical(art) ==
    IF "products" \in DOMAIN art
    THEN [products |-> art.products, headers |-> art.headers, ignoredHeaders |-> art.ignoredHeaders, validationErrors |-> art.validationErrors]
    ELSE [products |-> "no result"]

StatusOf(job) == IF "status" \in DOMAIN job THEN job.status ELSE "no job"

\* C4: a message processed twice in a row, neither time with an infrastructure failure,
\* leaves the job in the status the first processing left it in, and the result under
\* the one key <prefix>/<jobId>-result.json with the same products, headers, ignored
\* headers and validation errors.
C4_SameMessageTwice ==
    (Finished /\ LastJob # NoValue /\ prev.rec = last.rec /\ prev.clean /\ last.clean) =>
        /\ StatusOf(JobOf(jobs, LastJob)) = StatusOf(prev.job)
        /\ Logical(ArtOf(results, LastJob)) = Logical(prev.art)
        /\ \A k \in DOMAIN results : k[2] = LastJob => k = ResultKey(LastJob)

\* the same message has been processed twice to a completed status with a result
C4_Witness ==
    /\ Finished /\ prev.rec = last.rec /\ prev.clean /\ last.clean
    /\ last.path = "done"
    /\ jobs[LastJob].status \in Completed
    /\ "products" \in DOMAIN prev.art

FailurePaths == {"missing_ids", "connect", "log_initial", "no_bucket", "no_attrs", "download", "decode", "csv_error", "put"}

\* C5 (as stated): when a message that carries a job identifier ends in a failure
\* branch, a job record with that identifier exists with status FAILED and errorDetails
\* (leaving aside the runs in which the store rejected the write of that status).
C5_FailureAlwaysRecorded ==
    (Finished /\ LastJob # NoValue /\ last.path \in FailurePaths /\ (last.clean \/ last.path \in {"connect", "log_initial"})) =>
        /\ LastJob \in DOMAIN jobs
        /\ jobs[LastJob].status = "FAILED"
        /\ "errorDetails" \in DOMAIN jobs[LastJob]

\* C6: submittedAt is fixed by the first insert of the job record (to the value the
\* message carries) and no later step changes it, while the initial upsert of every
\* delivery rewrites status, processingStartedAt and updatedAt.
C6_SubmittedAtOnlyOnInsert ==
    [][/\ \A j \in DOMAIN jobs : jobs'[j].submittedAt = jobs[j].submittedAt
       /\ \A j \in (DOMAIN jobs') \ (DOMAIN jobs) : jobs'[j].submittedAt = loc.submitted_at_iso
       /\ (pc = "log_initial" /\ pc' = "attributes" /\ loc.job_id \in DOMAIN jobs) =>
              /\ jobs'[loc.job_id].status = "PROCESSING"
              /\ jobs'[loc.job_id].processingStartedAt = clock /\ clock > jobs[loc.job_id].processingStartedAt
              /\ jobs'[loc.job_id].updatedAt = clock /\ clock > jobs[loc.job_id].updatedAt]_vars

\* a later delivery carrying another submittedAt has been upserted
C6_Witness ==
    /\ pc = "attributes"
    /\ jobs[loc.job_id].submittedAt # loc.submitted_at_iso
    /\ jobs[loc.job_id].processingStartedAt > jobs[loc.job_id].submittedAt + 1
    /\ jobs[loc.job_id].status = "PROCESSING"

\* C7 (as stated): when the download fails the handler raises, and the job is then
\* FAILED with errorDetails equal to the structured download error.
C7_DownloadErrorKept ==
    (pc = "idle" /\ last.rec.body = "json" /\ last.path = "download" /\ last.clean) =>
        /\ outcome = "raised"
        /\ jobs[LastJob].status = "FAILED"
        /\ jobs[LastJob].errorDetails = DownloadError(LastObject.code)

\* C8: when the CSV cannot be parsed, the job is marked FAILED with an error detail
\* (the record shows it whenever the store accepted the write), no result is written
\* by this delivery, nothing is raised, and the loop goes on to the next record.
C8_CsvErrorIsAbsorbed ==
    (Finished /\ last.path = "csv_error") =>
        /\ ~last.raised
        /\ IF last.left > 0 THEN pc = "loop" /\ idx = batchLen - last.left /\ outcome = "running" ELSE outcome \in {"running", "returned"}
        /\ last.accepted => (jobs[LastJob].status = "FAILED" /\ "errorDetails" \in DOMAIN jobs[LastJob] /\ jobs[LastJob].errorDetails = [error |-> "csv_parse"])
        /\ ~last.accepted => jobs[LastJob].status = "PROCESSING"
        /\ ResultKey(LastJob) \in DOMAIN results => results[ResultKey(LastJob)].processingTimestamp < jobs[LastJob].processingStartedAt

\* a CSV parse failure has been absorbed with another record of the batch still to come
C8_Witness ==
    /\ Finished /\ last.path = "csv_error" /\ last.accepted
    /\ last.left > 0 /\ pc = "loop"
    /\ jobs[LastJob].status = "FAILED"

\* C9: when put_object fails, the handler raises; the job is never left with a
\* completed status, it is FAILED whenever the store accepted one of the status writes,
\* and no step of the failing path sets resultS3Key.
C9_PutFailure ==
    /\ [](((pc = "idle" /\ last.rec.body = "json" /\ last.path = "put") =>
              /\ last.raised /\ outcome = "raised"
              /\ jobs[LastJob].status \notin Completed
              /\ last.accepted => jobs[LastJob].status = "FAILED"
              /\ ~last.accepted => jobs[LastJob].status = "PROCESSING"))
    /\ [][((pc = "put" /\ pc' = "except") \/ (pc = "except" /\ loc.path = "put")) =>
              \A j \in DOMAIN jobs : ("resultS3Key" \in DOMAIN jobs'[j]) = ("resultS3Key" \in DOMAIN jobs[j])]_vars

\* the write of the result has failed and the handler has raised with the job FAILED
C9_Witness ==
    /\ pc = "idle" /\ last.rec.body = "json" /\ last.path = "put" /\ last.accepted
    /\ outcome = "raised"
    /\ jobs[LastJob].status = "FAILED"
    /\ "resultS3Key" \notin DOMAIN jobs[LastJob]

\* the record finished last named a CSV whose headers are recognized (some or all) and that has no data row
LastHadNoRows == LastObject.kind = "csv" /\ LastObject.rows = <<>> /\ Recognized(LastObject.headers, attrDefs) # <<>>

\* C10 (as stated): a parsed CSV with recognized headers and no data row gives zero
\* products, zero validation errors and, when no header was ignored, status COMPLETED.
C10_ZeroRowsCompleted ==
    (Finished /\ last.path = "done" /\ last.accepted /\ LastHadNoRows) =>
        /\ results[ResultKey(LastJob)].products = <<>>
        /\ results[ResultKey(LastJob)].validationErrors = <<>>
        /\ Ignored(LastObject.headers, attrDefs) = <<>> => jobs[LastJob].status = "COMPLETED"

\* C10 (amended): a parsed CSV with recognized headers and no data row gives zero
\* products, zero validation errors and status COMPLETED_WITH_ISSUES, whether or not a
\* header was ignored (COMPLETED needs at least one row read).
C10_ZeroRowsCompletedWithIssues ==
    (Finished /\ last.path = "done" /\ last.accepted /\ LastHadNoRows) =>
        /\ results[ResultKey(LastJob)].products = <<>>
        /\ results[ResultKey(LastJob)].validationErrors = <<>>
        /\ jobs[LastJob].status = "COMPLETED_WITH_ISSUES"

\* a CSV with recognized headers only, none ignored, has been processed
C10_Witness ==
    /\ Finished /\ last.path = "done" /\ last.accepted /\ LastHadNoRows
    /\ Ignored(LastObject.headers, attrDefs) = <<>>
    /\ results[ResultKey(LastJob)].message = [kind |-> "processed", rows |-> 0, valid |-> 0, issues |-> 0]

\* the record finished last named a CSV with no header, or with no header that names a defined attribute
LastHadNoColumns == LastObject.kind = "csv" /\ Recognized(LastObject.headers, attrDefs) = <<>>

\* C11: a CSV with no header at all, or with no header that names a defined attribute,
\* has its result written (unless the configuration or an infrastructure call fails)
\* with no product and no validation error, whatever rows it has; the outcome message
\* is the 'empty file' one or the 'no matching columns' one respectively, and the job
\* becomes COMPLETED_WITH_ISSUES (the status read when the store accepted the write).
C11_NoColumnsShortCircuit ==
    (Finished /\ LastHadNoColumns) =>
        /\ (last.clean /\ bucketSet) => last.path = "done"
        /\ last.path = "done" =>
              /\ results[ResultKey(LastJob)].products = <<>>
              /\ results[ResultKey(LastJob)].validationErrors = <<>>
              /\ results[ResultKey(LastJob)].message = [kind |-> IF LastObject.headers = <<>> THEN "empty_or_no_headers" ELSE "no_matching_columns"]
              /\ last.accepted => jobs[LastJob].status = "COMPLETED_WITH_ISSUES"
              /\ ~last.accepted => jobs[LastJob].status = "PROCESSING"

\* a CSV with rows under headers that name no defined attribute has been processed
C11_Witness ==
    /\ Finished /\ LastHadNoColumns /\ last.path = "done" /\ last.accepted
    /\ LastObject.headers # <<>> /\ LastObject.rows # <<>>
    /\ results[ResultKey(LastJob)].message.kind = "no_matching_columns"
    /\ jobs[LastJob].status = "COMPLETED_WITH_ISSUES"

\* the record finished last named a CSV whose rows were looped over, and its result was written
LastWasLooped == Finished /\ last.path = "done" /\ LastObject.kind = "csv" /\ Recognized(LastObject.headers, attrDefs) # <<>>

\* the validator's verdict on the cell of data row i (1-based) under the recognized header h
CellOf(object, i, h) == validate_value(RowGet(object.headers, object.rows[i], h), h, attrDefs[h], i - 1)

CellPasses(cell, attr_def) == cell.ok /\ (IsRequired(attr_def) => ~IsEmptyValue(cell.value))

\* every recognized cell of data row i is accepted and every required check passes
RowAccepted(object, i) ==
    \A k \in 1..Len(Recognized(object.headers, attrDefs)) :
        CellPasses(CellOf(object, i, Recognized(object.headers, attrDefs)[k]), attrDefs[Recognized(object.headers, attrDefs)[k]])

\* the cleaned values of data row i, by recognized header
RowValues(object, i) == [h \in {Recognized(object.headers, attrDefs)[k] : k \in 1..Len(Recognized(object.headers, attrDefs))} |-> CellOf(object, i, h).value]

\* the cleaned rows that pass, in the order of the file
RECURSIVE AcceptedRows(_, _)
AcceptedRows(object, i) ==
    IF i > Len(object.rows) THEN <<>>
    ELSE (IF RowAccepted(object, i) THEN <<RowValues(object, i)>> ELSE <<>>) \o AcceptedRows(object, i + 1)

RowsWithErrors(errors) == {errors[k].row : k \in 1..Len(errors)}

RowsRejected(object) == {i \in 1..Len(object.rows) : ~RowAccepted(object, i)}

\* C12: the product list of the result is exactly the data rows whose recognized cells
\* are all accepted by the validator and whose required checks all pass, with their
\* cleaned values, in the order of the file; a row that fails is not in the list and
\* has at least one message in the validation error list, and no message is about a
\* row that is in the product list.
C12_RowInProductsIffValid ==
    LastWasLooped =>
        /\ results[ResultKey(LastJob)].products = AcceptedRows(LastObject, 1)
        /\ RowsWithErrors(results[ResultKey(LastJob)].validationErrors) = RowsRejected(LastObject)

\* a file with a valid row followed by two rows that fail has been processed
C12_Witness ==
    /\ LastWasLooped
    /\ Len(LastObject.rows) = 3
    /\ Len(results[ResultKey(LastJob)].products) = 1
    /\ RowsWithErrors(results[ResultKey(LastJob)].validationErrors) = {2, 3}

\* the recognized headers under which the cell of data row i fails
FailingCells(object, i) ==
    {h \in {Recognized(object.headers, attrDefs)[k] : k \in 1..Len(Recognized(object.headers, attrDefs))} :
        ~CellPasses(CellOf(object, i, h), attrDefs[h])}

ErrorsAbout(errors, i) == LET About(e) == e.row = i IN SelectSeq(errors, About)

OneErrorFor(about, h) == Len(about) = 1 /\ about[1].col = attrDefs[h].name

\* C13: a data row with exactly one invalid cell has exactly one message in the
\* validation error list; the message carries the 1-based number of the row (index of
\* the data row plus one) and the name of the attribute of the column.
C13_OneBadCellOneError ==
    LastWasLooped =>
        \A i \in 1..Len(LastObject.rows) : \A h \in FailingCells(LastObject, i) :
            FailingCells(LastObject, i) = {h} => OneErrorFor(ErrorsAbout(results[ResultKey(LastJob)].validationErrors, i), h)

\* headers Name,Color and the single row (Widget,Green): no product, one error for
\* row 1, column Color, and the job COMPLETED_WITH_ISSUES
C13_Witness ==
    /\ LastWasLooped /\ last.accepted
    /\ LastObject = Csv(<<"Name", "Color">>, << <<Widget, <<"G", "r", "e", "e", "n">>>> >>)
    /\ results[ResultKey(LastJob)].products = <<>>
    /\ results[ResultKey(LastJob)].validationErrors = <<ErrMsg(1, "Color", "not_in_options", PyStr(<<"G", "r", "e", "e", "n">>))>>
    /\ jobs[LastJob].status = "COMPLETED_WITH_ISSUES"

\* a step of the job status read
StatusReadStep == request'.handler = "get_job_status" /\ <<request, response>>' # <<request, response>>

\* C14: the job status read puts a resultDownloadUrl in its answer only when the stored
\* status is COMPLETED or COMPLETED_WITH_ISSUES and the record has a resultS3Key (the
\* URL is for that key), never for a PROCESSING or FAILED job; an identifier with no
\* record gets 404 when the store answers; the read changes no job record.
C14_StatusRead ==
    [][StatusReadStep =>
          /\ jobs' = jobs
          /\ "resultDownloadUrl" \in DOMAIN response'.body =>
                /\ response'.statusCode = 200
                /\ request'.jobId \in DOMAIN jobs
                /\ jobs[request'.jobId].status \in Completed
                /\ "resultS3Key" \in DOMAIN jobs[request'.jobId]
                /\ response'.body.resultDownloadUrl.Key = jobs[request'.jobId].resultS3Key
          /\ (request'.store_up /\ request'.jobId # NoValue /\ request'.jobId \notin DOMAIN jobs) => response'.statusCode = 404
          /\ response'.statusCode = 200 => request'.jobId \in DOMAIN jobs]_vars

\* the status of a completed job has been read with a download URL for its result
C14_Witness ==
    /\ request.handler = "get_job_status" /\ response.statusCode = 200
    /\ response.body.status = "COMPLETED"
    /\ "resultDownloadUrl" \in DOMAIN response.body
    /\ response.body.resultDownloadUrl.Key = ResultKey(request.jobId)

\* validate_value has returned for a cell of a column of the given type
Validated(type) == call.done /\ call.attr_def.type = type

\* the cell is missing, empty or made of whitespace only
BlankCell(value_str) == value_str.t = "none" \/ \A k \in 1..Len(value_str.s) : value_str.s[k] \in Whitespace

\* C15: for every attribute type, validate_value on a missing, empty or whitespace-only
\* cell returns accepted with the value None and no error when the definition is not
\* required, and rejected with the value None and an error that names the column (and
\* the 1-based row) when it is required.
C15_BlankCell ==
    (call.done /\ BlankCell(call.value_str)) =>
        IF "isRequired" \in DOMAIN call.attr_def /\ call.attr_def.isRequired
        THEN ~call.result.ok /\ call.result.value = PyNone /\ call.result.err = [row |-> call.row_number + 1, col |-> call.attr_def.name, kind |-> "required_empty", detail |-> PyNone]
        ELSE call.result.ok /\ call.result.value = PyNone /\ call.result.err = NoErr

\* a whitespace-only cell of a required column has been rejected
C15_Witness ==
    /\ call.done /\ call.value_str = PyStr(<<"\t", " ">>)
    /\ call.attr_def.type = "multiple_select" /\ call.attr_def.isRequired
    /\ ~call.result.ok /\ call.result.err.col = "Col"

\* the text of the cell without the whitespace around it, character by character
Trimmed(s, t) ==
    \E a \in 0..Len(s) : \E b \in a..Len(s) :
        /\ t = SubSeq(s, a + 1, b)
        /\ \A k \in 1..a : s[k] \in Whitespace
        /\ \A k \in (b + 1)..Len(s) : s[k] \in Whitespace
        /\ t # <<>> => (t[1] \notin Whitespace /\ t[Len(t)] \notin Whitespace)

HasOptions(attr_def) == "options" \in DOMAIN attr_def /\ attr_def.options # <<>>

IsOption(attr_def, s) == \E k \in 1..Len(attr_def.options) : attr_def.options[k] = s

\* C16: for a single_select definition, validate_value rejects every non-blank cell
\* when the definition has no options, rejects a cell whose trimmed text is not one of
\* the options, and otherwise accepts with the trimmed text as cleaned value; with
\* options [Red, Blue], Red is accepted and Green is rejected.
C16_SingleSelect ==
    (Validated("single_select") /\ ~BlankCell(call.value_str)) =>
        /\ ~HasOptions(call.attr_def) => (~call.result.ok /\ call.result.err.kind = "no_options")
        /\ HasOptions(call.attr_def) =>
              /\ Trimmed(call.value_str.s, call.result.value.s)
              /\ call.result.ok = IsOption(call.attr_def, call.result.value.s)
              /\ call.result.ok => call.result.err = NoErr
              /\ ~call.result.ok => (call.result.err.kind = "not_in_options" /\ call.result.err.col = call.attr_def.name)
              /\ (call.attr_def.options = <<Red, Blue>> /\ call.value_str = PyStr(Red)) => (call.result.ok /\ call.result.value = PyStr(Red))
              /\ (call.attr_def.options = <<Red, Blue>> /\ call.value_str = PyStr(Green)) => ~call.result.ok

\* a cell with blanks around an option has been accepted as the option
C16_Witness ==
    /\ Validated("single_select") /\ call.value_str = PyStr(<<" ", "R", "e", "d", " ">>)
    /\ HasOptions(call.attr_def)
    /\ call.result = Result(TRUE, PyStr(Red), NoErr)

\* the trimmed text of s
TrimOf(s) == CHOOSE t \in {SubSeq(s, a + 1, b) : a \in 0..Len(s), b \in 0..Len(s)} : Trimmed(s, t)

\* the positions of the separators of s, with the two ends
Cuts(s) == {0, Len(s) + 1} \cup {k \in 1..Len(s) : s[k] = ";"}

\* the pieces of s between its separators, trimmed, from position p on, the empty ones left out
RECURSIVE EntriesFrom(_, _)
EntriesFrom(s, p) ==
    IF p > Len(s) THEN <<>>
    ELSE LET q == CHOOSE c \in Cuts(s) : c > p /\ \A d \in Cuts(s) : d > p => c <= d
             piece == TrimOf(SubSeq(s, p + 1, q - 1))
         IN (IF piece = <<>> THEN <<>> ELSE <<piece>>) \o EntriesFrom(s, q)

Entries(value_str) == EntriesFrom(value_str.s, 0)

NotOptions(attr_def, entries) == LET Outside(e) == ~IsOption(attr_def, e) IN SelectSeq(entries, Outside)

MultiVerdict(entries, outside, attr_def, result) ==
    IF ~HasOptions(attr_def) THEN ~result.ok /\ result.err.kind = "no_options"
    ELSE IF entries = <<>> /\ "isRequired" \in DOMAIN attr_def /\ attr_def.isRequired THEN ~result.ok /\ result.err.kind = "value_required"
    ELSE IF outside # <<>> THEN ~result.ok /\ result.err.kind = "values_not_allowed" /\ result.err.detail = PyList(outside) /\ result.err.col = attr_def.name
    ELSE result = Result(TRUE, PyList(entries), NoErr)

ABC == <<<<"A">>, <<"B">>, <<"C">>>>

\* C17: for a multiple_select definition and a non-blank cell, validate_value takes the
\* pieces of the cell between the ';', trimmed, the empty ones dropped; it rejects when
\* the definition has no options, rejects when no piece is left and the definition is
\* required, rejects with a message that lists exactly the pieces that are not options
\* when there is one, and otherwise accepts with the pieces in the order of the cell;
\* with options [A, B, C], 'A;C' gives [A, C] and 'A;D' is rejected listing [D].
C17_MultipleSelect ==
    (Validated("multiple_select") /\ ~BlankCell(call.value_str)) =>
        /\ MultiVerdict(Entries(call.value_str), NotOptions(call.attr_def, Entries(call.value_str)), call.attr_def, call.result)
        /\ (HasOptions(call.attr_def) /\ call.attr_def.options = ABC /\ call.value_str = PyStr(<<"A", ";", "C">>))
               => call.result = Result(TRUE, PyList(<<<<"A">>, <<"C">>>>), NoErr)
        /\ (HasOptions(call.attr_def) /\ call.attr_def.options = ABC /\ call.value_str = PyStr(<<"A", ";", "D">>))
               => (~call.result.ok /\ call.result.err.detail = PyList(<<<<"D">>>>))

\* a cell with two entries that are not options among three has been rejected, listing the two
C17_Witness ==
    /\ Validated("multiple_select") /\ call.value_str = PyStr(<<"A", ";", "D", ";", "E">>)
    /\ HasOptions(call.attr_def)
    /\ ~call.result.ok
    /\ call.result.err.detail = PyList(<<<<"D">>, <<"E">>>>)

DigitsOnly(s) == s # <<>> /\ \A k \in 1..Len(s) : s[k] \in Digits

\* digits with at most one point among them
PlainDecimal(s) ==
    /\ \A k \in 1..Len(s) : s[k] \in Digits \cup {"."}
    /\ Cardinality({k \in 1..Len(s) : s[k] = "."}) <= 1
    /\ \E k \in 1..Len(s) : s[k] \in Digits

\* a decimal number: an optional sign, digits with at most one point, and an optional
\* power of ten (e, an optional sign, digits)
DecimalNumber(s) ==
    \E a \in 0..1 : \E b \in a..Len(s) :
        /\ a = 1 => (s # <<>> /\ s[1] \in {"+", "-"})
        /\ PlainDecimal(SubSeq(s, a + 1, b))
        /\ \/ b = Len(s)
           \/ /\ b < Len(s) /\ s[b + 1] \in {"e", "E"}
              /\ \/ DigitsOnly(SubSeq(s, b + 2, Len(s)))
                 \/ (b + 2 <= Len(s) /\ s[b + 2] \in {"+", "-"} /\ DigitsOnly(SubSeq(s, b + 3, Len(s))))

\* an integer, or a floating-point number that is not integral
IntOrFraction(value) == value.t = "int" \/ (value.t = "float" /\ value.e < 0 /\ value.m % 10 # 0)

NumberCell(text) == Validated("number") /\ call.value_str = PyStr(text)

\* C18 (as stated): for a number definition, validate_value accepts exactly the
\* non-blank cells whose trimmed text is a decimal number and rejects every other one
\* with an error naming the column; an accepted value is an integer when it is
\* integral and a floating-point number otherwise: '42' gives the integer 42, '42.5'
\* gives 42.5 and 'abc' is rejected.
C18_AcceptsExactlyDecimals ==
    (Validated("number") /\ ~BlankCell(call.value_str)) =>
        /\ call.result.ok = DecimalNumber(TrimOf(call.value_str.s))
        /\ call.result.ok => (IntOrFraction(call.result.value) /\ call.result.err = NoErr)
        /\ ~call.result.ok => (call.result.err.kind = "not_a_number" /\ call.result.err.col = call.attr_def.name)
        /\ NumberCell(<<"4", "2">>) => call.result.value = PyInt(42)
        /\ NumberCell(<<"4", "2", ".", "5">>) => call.result.value = PyFloat(425, -1)
        /\ NumberCell(<<"a", "b", "c">>) => ~call.result.ok

\* what holds of a number cell apart from the words float() reads as infinity and not-a-number
C18_DecimalsAndSpecialWords ==
    (Validated("number") /\ ~BlankCell(call.value_str)) =>
        /\ call.result.ok = (DecimalNumber(TrimOf(call.value_str.s)) \/ Lower(Unsigned(TrimOf(call.value_str.s))) \in SpecialWords)
        /\ (call.result.ok /\ DecimalNumber(TrimOf(call.value_str.s))) => (IntOrFraction(call.result.value) /\ call.result.err = NoErr)
        /\ (call.result.ok /\ ~DecimalNumber(TrimOf(call.value_str.s))) => call.result.value.t = "special"
        /\ ~call.result.ok => (call.result.err.kind = "not_a_number" /\ call.result.err.col = call.attr_def.name)
        /\ NumberCell(<<"4", "2">>) => call.result.value = PyInt(42)
        /\ NumberCell(<<"4", "2", ".", "5">>) => call.result.value = PyFloat(425, -1)
        /\ NumberCell(<<"a", "b", "c">>) => ~call.result.ok

\* a create request that passes the checks of the handler: a name, an allowed type,
\* options for a select type, a unit for a measure
ValidCreate(body) ==
    /\ "name" \in DOMAIN body /\ body.name # <<>>
    /\ "type" \in DOMAIN body /\ body.type \in AllowedTypes
    /\ body.type \in {"single_select", "multiple_select"} => ("options" \in DOMAIN body /\ body.options # <<>>)
    /\ body.type = "measure" => ("unit" \in DOMAIN body /\ \E k \in 1..Len(body.unit) : body.unit[k] \notin Whitespace)

CreateStep == request'.handler = "create_attribute" /\ clock' # clock

\* C19: no two stored attribute definitions share an identifier; a valid create whose
\* name derives to an identifier that is stored gets 409 and leaves the collection as
\* it is, and every other valid create gets 201 and stores exactly one new definition,
\* under the derived identifier (when the store answers).
C19_IdentifierUnique ==
    /\ [](\A d \in attributes : \A e \in attributes : d._id = e._id => d = e)
    /\ [][(CreateStep /\ request'.store_up /\ ValidCreate(request'.body)) =>
              IF DeriveId(request'.body.name) \in Ids(attributes)
              THEN response'.statusCode = 409 /\ attributes' = attributes
              ELSE /\ response'.statusCode = 201
                   /\ \E d \in attributes' : d._id = DeriveId(request'.body.name) /\ d \notin attributes /\ attributes' = attributes \cup {d}]_vars

\* a create with another name that derives to a stored identifier has been refused
C19_Witness ==
    /\ request.handler = "create_attribute" /\ response.statusCode = 409
    /\ \E d \in attributes : d._id = DeriveId(request.body.name) /\ d.name # Strip(request.body.name)

UpdateStep == request'.handler = "update_attribute" /\ clock' # clock

\* what an update may change in a stored definition
Mutable == AllowedToUpdate \cup {"updatedAt"}

SameBut(d, e, fields) ==
    /\ (DOMAIN d) \ fields = (DOMAIN e) \ fields
    /\ \A k \in (DOMAIN d) \ fields : e[k] = d[k]

\* C20: whatever the body of an update request contains, the update leaves the type,
\* the identifier and the name of every stored definition as they are: it stores and
\* removes no definition, and in the definition it addresses it changes only fields
\* among options, unit, isFilterable, isSortable, isRequired, description and updatedAt.
C20_UpdateKeepsTypeIdName ==
    [][UpdateStep =>
          /\ Ids(attributes') = Ids(attributes)
          /\ \A d \in attributes :
                /\ Stored(attributes', d._id).type = d.type
                /\ Stored(attributes', d._id).name = d.name
                /\ SameBut(d, Stored(attributes', d._id), Mutable)
                /\ d._id # UnquotePlus(request'.attributeId) => d \in attributes']_vars

\* an update whose body names another type, name and identifier has been applied
C20_Witness ==
    /\ request.handler = "update_attribute" /\ response.statusCode = 200
    /\ "type" \in DOMAIN request.body
    /\ response.body.attribute.type # request.body.type
    /\ response.body.attribute.name # request.body.name
    /\ response.body.attribute.isFilterable = FALSE
    /\ response.body.attribute \in attributes

\* an update request that names a definition and carries a readable body, answered with the store up
UpdateAsked == UpdateStep /\ request'.store_up /\ request'.attributeId # <<>> /\ request'.body # [malformed |-> TRUE]

\* a body whose update cannot be applied to a definition of this type: options for a type
\* that is not a select, a unit for a type that is not measure, a flag that is not a
\* boolean, options that are not an array of strings, a unit that is not a non-blank text
Inapplicable(body, type) ==
    \/ "options" \in DOMAIN body /\ type \notin {"single_select", "multiple_select"}
    \/ "unit" \in DOMAIN body /\ type # "measure"
    \/ \E key \in (DOMAIN body) \cap Flags : body[key] \notin {"true", "false"}
    \/ "options" \in DOMAIN body /\ (body.options = NotAList \/ \E k \in 1..Len(body.options) : body.options[k] = NotAString)
    \/ "unit" \in DOMAIN body /\ (body.unit = NotAString \/ \A k \in 1..Len(body.unit) : body.unit[k] \in Whitespace)

C22_MeasureHasUnit == \A d \in attributes : d.type = "measure" => "unit" \in DOMAIN d /\ d.unit # <<>>

\* C22: every stored definition of type single_select or multiple_select has an option
\* list that is not empty, and every stored definition of type measure has a unit that
\* is not empty
C22_SelectHasOptionsMeasureHasUnit ==
    /\ \A d \in attributes : d.type \in {"single_select", "multiple_select"} => "options" \in DOMAIN d /\ d.options # <<>>
    /\ \A d \in attributes : d.type = "measure" => "unit" \in DOMAIN d /\ d.unit # <<>>

\* the recognized headers of the file whose attribute definition is required
RequiredColumns(object) ==
    {h \in {Recognized(object.headers, attrDefs)[k] : k \in 1..Len(Recognized(object.headers, attrDefs))} :
        "isRequired" \in DOMAIN attrDefs[h] /\ attrDefs[h].isRequired}

\* data row i has no cell under header h (the row is shorter than the header line), or a cell of blanks only
LacksValue(object, i, h) ==
    LET k == CHOOSE q \in 1..Len(object.headers) : object.headers[q] = h
    IN k > Len(object.rows[i]) \/ \A q \in 1..Len(object.rows[i][k]) : object.rows[i][k][q] \in Whitespace

\* a value of the product list that is null, a blank text or an empty list
NoValueIn(v) == v.t = "none" \/ (v.t = "str" /\ \A q \in 1..Len(v.s) : v.s[q] \in Whitespace) \/ (v.t = "list" /\ v.l = <<>>)

\* the data rows that lack a value under a required recognized column
RowsLacking(object) == {i \in 1..Len(object.rows) : \E h \in RequiredColumns(object) : LacksValue(object, i, h)}

\* C28: in the result of a file whose rows were looped over, every product has a value
\* that is not null and not blank under every recognized column whose definition is
\* required; a data row with no cell (a row shorter than the header line) or a blank
\* cell under such a column is not among the products and has a 'Value is required'
\* message with its row number and that column in the validation error list.
C28_RequiredValuesPresent ==
    LastWasLooped =>
        /\ \A k \in 1..Len(results[ResultKey(LastJob)].products) : \A h \in RequiredColumns(LastObject) :
              ~NoValueIn(results[ResultKey(LastJob)].products[k][h])
        /\ \A i \in RowsLacking(LastObject) : \A h \in RequiredColumns(LastObject) :
              LacksValue(LastObject, i, h) =>
                  \E q \in 1..Len(results[ResultKey(LastJob)].validationErrors) :
                      /\ results[ResultKey(LastJob)].validationErrors[q].row = i
                      /\ results[ResultKey(LastJob)].validationErrors[q].col = h
                      /\ results[ResultKey(LastJob)].validationErrors[q].kind \in {"required_empty", "required_missing", "value_required"}
        /\ Len(results[ResultKey(LastJob)].products) <= Len(LastObject.rows) - Cardinality(RowsLacking(LastObject))

\* a file whose required column Price has no cell in one row and a blank cell in
\* another has been processed: both rows are reported and the two others are products
C28_Witness ==
    /\ LastWasLooped
    /\ \E i \in RowsLacking(LastObject) : Len(LastObject.rows[i]) = 1
    /\ \E i \in RowsLacking(LastObject) : Len(LastObject.rows[i]) = 3
    /\ Len(results[ResultKey(LastJob)].products) = 2
    /\ Len(results[ResultKey(LastJob)].validationErrors) = 2

\* a step in which the handler takes the next record of the batch (lines 137-177)
EntryStep == pc = "loop" /\ idx < batchLen /\ (pc' # "loop" \/ idx' # idx)

\* a message that parses and whose payload lacks jobId, s3Bucket or s3Key
LacksIds(r) == r.body = "json" /\ (Get(r.payload, "jobId") = NoValue \/ Get(r.payload, "s3Bucket") = NoValue \/ GetKey(r.payload) = <<>>)

\* what the consumer does with a record that lacks an identifier: it moves to the next
\* entry, no job record appears, no record is written when there is no jobId, the record
\* of the jobId is FAILED with an error detail (when the store accepted the write) and
\* the other records are as they were
DroppedOrFailed ==
    /\ pc' = "loop" /\ idx' = idx + 1 /\ outcome' = "running"
    /\ DOMAIN jobs' = DOMAIN jobs
    /\ Get(rec'.payload, "jobId") = NoValue => jobs' = jobs
    /\ (Get(rec'.payload, "jobId") \in DOMAIN jobs /\ loc'.accepted) =>
           jobs'[Get(rec'.payload, "jobId")].status = "FAILED" /\ "errorDetails" \in DOMAIN jobs'[Get(rec'.payload, "jobId")]
    /\ \A j \in (DOMAIN jobs) \ {Get(rec'.payload, "jobId")} : jobs'[j] = jobs[j]

\* C29: a message whose payload lacks jobId, s3Bucket or s3Key never makes the handler
\* raise and never creates a job record; with a jobId that has a record the record
\* becomes FAILED with an error detail, with no jobId nothing is written, and the
\* consumer goes on with the next entry of the batch.
C29_MissingIdsNeverRaise == [][(EntryStep /\ LacksIds(rec')) => DroppedOrFailed]_vars

\* C29 (connected): the same, for the deliveries in which the connection to the store is obtained
C29_MissingIdsWhenConnected == [][(EntryStep /\ LacksIds(rec') /\ loc'.db_client) => DroppedOrFailed]_vars

\* update_job_status is called for a job identifier that has no record (line 176)
UnknownJobUpdate == EntryStep /\ LacksIds(rec') /\ loc'.db_client /\ Get(rec'.payload, "jobId") # NoValue /\ Get(rec'.payload, "jobId") \notin DOMAIN jobs

\* C30: update_job_status called with a job identifier that has no record does not
\* raise (the handler goes on with the next entry), creates no record and leaves every
\* job record as it was, whether or not the store answers.
C30_UnknownJobNoOp == [][UnknownJobUpdate => jobs' = jobs /\ pc' = "loop" /\ idx' = idx + 1 /\ outcome' = "running"]_vars

\* a message with jobId jobB and no s3Bucket was handled while only jobA had a record
C30_Witness ==
    /\ last.path = "missing_ids" /\ ~last.raised
    /\ Get(last.rec.payload, "jobId") = "jobB"
    /\ DOMAIN jobs = {"jobA"}

InitiateStep == request'.handler = "initiate_processing" /\ clock' # clock

\* the job identifiers of the messages on the queue
Enqueued(q) == {q[k].MessageBody.payload.jobId : k \in 1..Len(q)}

\* the request names a bucket (its own or the configured one) and a key
HasBucketAndKey(r) ==
    /\ "malformed" \notin DOMAIN r.body
    /\ r.bucket_env # NoValue \/ ("s3Bucket" \in DOMAIN r.body /\ r.body.s3Bucket # NoValue)
    /\ "s3Key" \in DOMAIN r.body /\ r.body.s3Key # <<>>

\* C25: an initiation request with a bucket and a key, when the queue is configured and
\* accepts the message, puts exactly one message on the queue and is answered 202; the
\* message carries a job identifier that no earlier message carries, the bucket, the
\* key, the file name (last segment of the key), maxPreviewRows (50 when the request
\* gives none) and the time of submission, and the answer carries the same job
\* identifier; every request answered otherwise (400, 500) leaves the queue as it was.
C25_InitiateEnqueuesOnce ==
    [][InitiateStep =>
          /\ response'.statusCode \in {202, 400, 500}
          /\ (HasBucketAndKey(request') /\ request'.queue_url # NoValue /\ request'.store_up) => response'.statusCode = 202
          /\ response'.statusCode = 202 =>
                /\ HasBucketAndKey(request')
                /\ Len(queue') = Len(queue) + 1 /\ SubSeq(queue', 1, Len(queue)) = queue
                /\ DOMAIN queue'[Len(queue')].MessageBody.payload = {"jobId", "s3Bucket", "s3Key", "originalFileName", "maxPreviewRows", "submittedAt"}
                /\ queue'[Len(queue')].MessageBody.payload.jobId = response'.body.jobId
                /\ response'.body.jobId \notin Enqueued(queue)
                /\ queue'[Len(queue')].MessageBody.payload.s3Key = request'.body.s3Key
                /\ queue'[Len(queue')].MessageBody.payload.s3Bucket = (IF request'.bucket_env # NoValue THEN request'.bucket_env ELSE request'.body.s3Bucket)
                /\ queue'[Len(queue')].MessageBody.payload.originalFileName = request'.body.s3Key[Len(request'.body.s3Key)]
                /\ queue'[Len(queue')].MessageBody.payload.maxPreviewRows = (IF "maxPreviewRows" \in DOMAIN request'.body THEN request'.body.maxPreviewRows ELSE 50)
                /\ queue'[Len(queue')].MessageBody.payload.submittedAt = clock
          /\ response'.statusCode # 202 => queue' = queue]_vars

\* two requests for the same key have been accepted: two messages with two job
\* identifiers, the second with the default of maxPreviewRows
C25_Witness ==
    /\ request.handler = "initiate_processing" /\ response.statusCode = 202
    /\ Len(queue) = 2
    /\ queue[1].MessageBody.payload.s3Key = queue[2].MessageBody.payload.s3Key
    /\ queue[1].MessageBody.payload.jobId # queue[2].MessageBody.payload.jobId
    /\ queue[2].MessageBody.payload.maxPreviewRows = 50
    /\ response.body.jobId = queue[2].MessageBody.payload.jobId

\* the answer is a response with a status code and, from 400 upwards, a body with an error text
HttpShaped(r) == "raised" \notin DOMAIN r /\ r.statusCode \in {200, 400, 404, 500, 503} /\ (r.statusCode >= 400 => "error" \in DOMAIN r.body)

\* C26: the job status handler returns an HTTP-shaped response for every event and
\* every store failure, and lets no exception escape; from status 400 upwards the body
\* carries an 'error' text. (Violated: with pathParameters null the exception raised
\* inside the except clause leaves the handler.)
C26_AlwaysHttpResponse == request.handler = "get_job_status" => HttpShaped(response)

\* the same for every event whose pathParameters is an object or absent
C26_HttpResponseUnlessNullParams == (request.handler = "get_job_status" /\ ~request.null_params) => HttpShaped(response)

\* a status read whose store call failed was answered 500 with an error text
C26_Witness == request.handler = "get_job_status" /\ ~request.null_params /\ response.statusCode = 500 /\ "error" \in DOMAIN response.body

\* the product list was read and answered 200
PageAnswered == request.handler = "get_products" /\ response.statusCode = 200

\* the value the parameter stands for when int() accepts it (0 when it does not)
AsInt(param, default) == IntParam(param, default).i

\* C24: in every answered product-list request the page is at least 1 and the limit is
\* between 1 and 100: when both parameters are integers (or absent: page 1, limit 10)
\* they are the given values clamped to these ranges, and when either is not an integer
\* the page is 1 and the limit 10; the documents returned are those after the first
\* (page-1)*limit, at most limit of them; totalPages is the ceiling of totalItems/limit,
\* hasNextPage is page < totalPages and hasPrevPage is page > 1.
C24_Pagination ==
    PageAnswered =>
        LET pg == response.body.pagination
            page == pg.currentPage
            limit == pg.itemsPerPage
            skip == (page - 1) * limit
            data == response.body.data
        IN /\ page >= 1 /\ limit >= 1 /\ limit <= 100
           /\ (IntParam(request.page, 1).ok /\ IntParam(request.limit, 10).ok) =>
                 /\ page = (IF AsInt(request.page, 1) < 1 THEN 1 ELSE AsInt(request.page, 1))
                 /\ limit = (IF AsInt(request.limit, 10) < 1 THEN 1 ELSE IF AsInt(request.limit, 10) > 100 THEN 100 ELSE AsInt(request.limit, 10))
           /\ ~(IntParam(request.page, 1).ok /\ IntParam(request.limit, 10).ok) => (page = 1 /\ limit = 10)
           /\ pg.totalItems = request.total
           /\ Len(data) <= limit /\ Len(data) <= request.total
           /\ \A k \in 1..Len(data) : data[k] = skip + k
           /\ Len(data) < limit => skip + Len(data) >= request.total
           /\ pg.totalPages * limit >= pg.totalItems /\ (pg.totalPages - 1) * limit < pg.totalItems /\ pg.totalPages >= 0
           /\ pg.hasNextPage = (page < pg.totalPages)
           /\ pg.hasPrevPage = (page > 1)

\* page 2 of 101 products with a limit given as 101: the limit is cut to 100, one
\* document is returned after 100 skipped, and there is a previous but no next page
C24_Witness ==
    /\ PageAnswered
    /\ request.page = PyStr(<<"2">>) /\ request.limit = PyStr(<<"1", "0", "1">>) /\ request.total = 101
    /\ response.body.pagination.itemsPerPage = 100 /\ response.body.pagination.totalPages = 2
    /\ response.body.data = <<101>>
    /\ response.body.pagination.hasPrevPage /\ ~response.body.pagination.hasNextPage

\* no two stored products share an identifier
UniqueProductIds == \A d \in products, e \in products : d._id = e._id => d = e

\* a step of the preview handler
EnrichStep == request'.handler = "ai_enrichment" /\ <<request, response>>' # <<request, response>>

\* the stored product a preview entry is about
StoredFor(entry) == CHOOSE d \in products : d._id = entry._id

\* the value is missing (None) or a blank text
BlankValue(v) == v.t = "none" \/ (v.t = "str" /\ \A k \in 1..Len(v.s) : v.s[k] \in Whitespace)

\* the fields of a product that are attributes: all but the identifier and the two times
AttributeFields(doc) == DOMAIN doc \ {"_id", "createdAt", "updatedAt"}

\* C27: the preview handler leaves the products collection as it was; in every preview
\* it returns, an attribute has a suggestion only if its definition has type short_text,
\* long_text or rich_text and the stored product lacks the attribute or holds None or a
\* blank text for it; the preview data carries the suggestion for each such attribute
\* and, for every attribute whose stored value is not empty, the stored value.
C27_PreviewWritesNothing ==
    [][EnrichStep =>
          /\ products' = products
          /\ response'.statusCode = 200 =>
                \A k \in 1..Len(response'.body.enrichedProductsPreview) :
                    LET entry == response'.body.enrichedProductsPreview[k]
                    IN /\ \E d \in products : d._id = entry._id
                       /\ DOMAIN entry.aiSuggestions # {}
                       /\ \A n \in DOMAIN entry.aiSuggestions :
                              /\ n \in DOMAIN attrDefs
                              /\ attrDefs[n].type \in {"short_text", "long_text", "rich_text"}
                              /\ n \in DOMAIN StoredFor(entry) => BlankValue(StoredFor(entry)[n])
                              /\ ~BlankValue(entry.aiSuggestions[n])
                              /\ entry.enrichedProductData[n] = entry.aiSuggestions[n]
                       /\ \A f \in AttributeFields(StoredFor(entry)) :
                              ~BlankValue(StoredFor(entry)[f]) => entry.enrichedProductData[f] = StoredFor(entry)[f]]_vars

\* a preview was returned for a stored product with a blank Description and a Price: the
\* Description and the missing Notes got suggestions, the Price and the name did not
C27_Witness ==
    /\ request.handler = "ai_enrichment" /\ response.statusCode = 200
    /\ Len(response.body.enrichedProductsPreview) = 1
    /\ response.body.enrichedProductsPreview[1]._id = Pid1
    /\ DOMAIN response.body.enrichedProductsPreview[1].aiSuggestions = {"Description", "Notes", "Color"} \ {"Color"}
    /\ response.body.enrichedProductsPreview[1].enrichedProductData.ProductName = PyStr(Widget)
    /\ \E d \in products : d._id = Pid1 /\ d.Description = PyStr(<<" ">>) /\ "Notes" \notin DOMAIN d

\* a step of one of the two handlers that write products
ProductWriteStep == request'.handler \in {"update_products", "approve_save"} /\ clock' # clock

\* the items of the request the handler writes
WrittenItems(r) == IF r.handler = "update_products" THEN UpdateItems(r.body.products) ELSE ApproveItems(r.body.products)

\* the stored document carries every attribute value of the item as it was submitted
ReadsBack(doc, item) == \A f \in AttributeFields(item) : f \in DOMAIN doc /\ doc[f] = item[f]

\* createdAt of a stored product never changes, a product written first gets a createdAt,
\* and every document a write touches has the time of that write as updatedAt
C23_CreatedAtKept ==
    [][ProductWriteStep =>
          /\ \A d \in products : \E e \in products' : e._id = d._id /\ e.createdAt = d.createdAt
          /\ \A e \in products' \ products : "createdAt" \in DOMAIN e /\ e.updatedAt.at = clock]_vars

\* what the bulk upsert writes is read back as submitted
C23_BulkUpsertReadsBack ==
    [][(ProductWriteStep /\ request'.handler = "update_products" /\ response'.statusCode = 200) =>
          \A k \in 1..Len(WrittenItems(request')) :
              \E e \in products' : e._id = WrittenItems(request')[k]._id /\ e.updatedAt.at = clock /\ ReadsBack(e, WrittenItems(request')[k])]_vars

\* C23: across the upserts of a product (bulk upsert and save of approved rows) the
\* stored createdAt is the one set by the first insert and never changes, updatedAt is
\* the time of every write, and every other attribute value read back equals the value
\* last written. (Violated: the save of approved rows turns texts that look like numbers
\* into numbers and replaces value/unit pairs by one measure attribute.)
C23_UpsertRoundTrip ==
    [][(ProductWriteStep /\ response'.statusCode = 200) =>
          /\ \A d \in products : \E e \in products' : e._id = d._id /\ e.createdAt = d.createdAt
          /\ \A e \in products' \ products : "createdAt" \in DOMAIN e /\ e.updatedAt.at = clock
          /\ \A k \in 1..Len(WrittenItems(request')) :
                \E e \in products' : e.updatedAt.at = clock /\ ReadsBack(e, WrittenItems(request')[k])]_vars

\* a product stored by the bulk upsert was written again by it: createdAt is the first
\* write's, updatedAt the second's
C23_Witness ==
    /\ request.handler = "update_products" /\ response.statusCode = 200
    /\ \E d \in products : d._id = Pid1 /\ d.createdAt.at = 1 /\ d.updatedAt.at = 2 /\ d.Price = PyStr(<<"7">>) /\ d.ProductName = PyStr(Widget)

\* the handler is in the body of the loop for an entry whose initial PROCESSING write succeeded
PastInitialWrite == pc \in {"attributes", "download", "validate", "put", "final"} \/ (pc = "except" /\ loc.path \in {"download", "decode", "put"})

\* the handler leaves the entry: it goes on to the next record, or raises
LeavesEntry == PastInitialWrite /\ pc' \in {"loop", "idle"}

\* C31: when the consumer leaves an entry whose initial PROCESSING write succeeded (by
\* going on to the next record and later returning, or by raising) and the store has
\* accepted a status write made after it, the status of the job is COMPLETED,
\* COMPLETED_WITH_ISSUES or FAILED; the job is left in PROCESSING only when the store
\* rejected every later status write.
C31_NeverLeftProcessing ==
    [][LeavesEntry =>
          /\ loc.job_id \in DOMAIN jobs'
          /\ last'.accepted => jobs'[loc.job_id].status \in Terminal
          /\ ~last'.accepted => jobs'[loc.job_id].status = "PROCESSING"]_vars

\* the download of an entry failed after its initial write, the handler raised and the
\* job is FAILED
C31_Witness ==
    /\ pc = "idle" /\ outcome = "raised" /\ last.rec.body = "json"
    /\ last.path = "download" /\ last.accepted
    /\ jobs[LastJob].status = "FAILED"
    /\ "processingStartedAt" \in DOMAIN jobs[LastJob]

\* the job of the entry the step works on: the record read by the step, or the one at hand
CurrentJob == IF pc = "loop" THEN (IF rec'.body = "json" THEN Get(rec'.payload, "jobId") ELSE NoValue) ELSE loc.job_id

\* C32: every step of the consumer leaves the job record of every job other than that
\* of the entry it is working on exactly as it was (status, errorDetails, resultS3Key
\* and all other fields), creates no record and writes no result for another job,
\* whether the entry ends well, in a handled failure or in a raise; the entries of a
\* batch are taken one at a time in the order of the batch: a record is read only at
\* the head of the loop, and the index moves by one from one entry to the next.
C32_OnlyTheCurrentJob ==
    [][/\ \A j \in DOMAIN jobs : j # CurrentJob => (j \in DOMAIN jobs' /\ jobs'[j] = jobs[j])
       /\ (DOMAIN jobs') \ (DOMAIN jobs) \subseteq {CurrentJob}
       /\ \A k \in DOMAIN results' : (k \notin DOMAIN results \/ results'[k] # results[k]) => k = ResultKey(CurrentJob)
       /\ rec' # rec => pc = "loop"
       /\ idx' \in {idx, idx + 1} \/ (pc = "idle" /\ idx' = 0)
       /\ idx' = idx + 1 => (pc' = "loop" /\ pc # "idle")]_vars

\* in a batch of two, the entry of jobB was completed and the entry of jobA then failed
\* at the download and raised: the record of jobB is as its own entry left it
C32_Witness ==
    /\ pc = "idle" /\ outcome = "raised" /\ batchLen = 2 /\ idx = 1
    /\ last.rec.body = "json" /\ LastJob = "jobA" /\ last.path = "download" /\ last.accepted
    /\ prev.rec.body = "json" /\ Get(prev.rec.payload, "jobId") = "jobB"
    /\ "status" \in DOMAIN prev.job /\ prev.job.status \in Completed
    /\ jobs["jobB"] = prev.job
    /\ jobs["jobA"].status = "FAILED"

\* the record carries the key of the result of its own job, and the result is stored there
PointsAtResult(job_id, js, rs) ==
    /\ "resultS3Key" \in DOMAIN js[job_id]
    /\ js[job_id].resultS3Key = ResultKey(job_id)
    /\ ResultKey(job_id) \in DOMAIN rs

\* C36: in every state, a job record whose status is COMPLETED or COMPLETED_WITH_ISSUES
\* carries resultS3Key = '<results prefix>/<jobId>-result.json' and an object is stored
\* under that key, and a record whose status is FAILED carries errorDetails; and the
\* step that sets a completed status finds the object already stored and leaves it as
\* it is, so the put of the result came before the status.
C36_CompletedPointsAtResult ==
    /\ [](\A j \in DOMAIN jobs :
             /\ jobs[j].status \in Completed => PointsAtResult(j, jobs, results)
             /\ jobs[j].status = "FAILED" => "errorDetails" \in DOMAIN jobs[j])
    /\ [][\A j \in DOMAIN jobs' :
             (jobs'[j].status \in Completed /\ (j \notin DOMAIN jobs \/ jobs[j].status \notin Completed))
                 => (PointsAtResult(j, jobs', results) /\ results' = results)]_vars

\* both outcomes are on record: one job completed with its result stored, another failed
C36_Witness ==
    /\ pc = "idle"
    /\ \E j, k \in DOMAIN jobs :
           /\ jobs[j].status \in Completed /\ PointsAtResult(j, jobs, results)
           /\ jobs[k].status = "FAILED" /\ "errorDetails" \in DOMAIN jobs[k]

\* C37: in every state, a job record whose status is FAILED has no resultS3Key and a
\* record whose status is COMPLETED or COMPLETED_WITH_ISSUES has no errorDetails: the
\* fields of an earlier outcome of the job are gone once a later, different outcome is
\* on record.
C37_NoFieldOfEarlierOutcome ==
    \A j \in DOMAIN jobs :
        /\ jobs[j].status = "FAILED" => "resultS3Key" \notin DOMAIN jobs[j]
        /\ jobs[j].status \in Completed => "errorDetails" \notin DOMAIN jobs[j]

\* the names in a sequence of headers
NamesIn(headers) == {headers[k] : k \in 1..Len(headers)}

\* C38: in every result of the row loop, validationErrors is empty exactly when the
\* number of products equals the number of rows read, and the keys of every product
\* are exactly the recognized headers: no ignored column appears in a product.
C38_ErrorsIffRowsDropped ==
    LastWasLooped =>
        LET result == results[ResultKey(LastJob)]
        IN /\ result.message.rows = Len(LastObject.rows)
           /\ (result.validationErrors = <<>>) <=> (Len(result.products) = Len(LastObject.rows))
           /\ \A k \in 1..Len(result.products) :
                  /\ DOMAIN result.products[k] = NamesIn(Recognized(LastObject.headers, attrDefs))
                  /\ DOMAIN result.products[k] \cap NamesIn(result.ignoredHeaders) = {}

\* a file with an ignored column and one clean row: the product holds the recognized column only
C38_Witness ==
    /\ LastWasLooped
    /\ results[ResultKey(LastJob)].ignoredHeaders = <<"Extra">>
    /\ Len(LastObject.rows) = 1
    /\ results[ResultKey(LastJob)].validationErrors = <<>>
    /\ Len(results[ResultKey(LastJob)].products) = 1
    /\ DOMAIN results[ResultKey(LastJob)].products[1] = {"Name"}

\* a save of approved rows has been answered, with the store up and rows in the body
ApproveStep ==
    /\ request'.handler = "approve_save" /\ clock' # clock /\ request'.store_up
    /\ "products" \in DOMAIN request'.body /\ request'.body.products # <<>>

\* the row has neither a Barcode nor a ProductName to take the identifier from
Keyless(item) == Falsy(GetValue(item, "Barcode")) /\ Falsy(GetValue(item, "ProductName"))

\* the stored document of the row written at the time now: its identifier is the Barcode
\* of the row, else its ProductName (both as stored), else a token no product had before
SavedUnderItsKey(item, coll_before, coll_after, now) ==
    \E e \in coll_after :
        /\ e.updatedAt.at = now
        /\ IF ~Falsy(GetValue(item, "Barcode")) THEN e._id = ConvertValue(item.Barcode)
           ELSE IF ~Falsy(GetValue(item, "ProductName")) THEN e._id = ConvertValue(item.ProductName)
           ELSE /\ \A d \in coll_before : d._id # e._id
                /\ \A f \in AttributeFields(item) : f \in DOMAIN e

\* a request whose rows all have a Barcode or a ProductName is answered 200 and every row
\* is stored under that key
C35_BusinessKeyIsIdentifier ==
    [][(ApproveStep /\ \A k \in 1..Len(ApproveItems(request'.body.products)) : ~Keyless(ApproveItems(request'.body.products)[k])) =>
          /\ response'.statusCode = 200
          /\ \A k \in 1..Len(ApproveItems(request'.body.products)) :
                SavedUnderItsKey(ApproveItems(request'.body.products)[k], products, products', clock)]_vars

\* C35: a save of approved rows with the store up is answered 200 and stores every row
\* under its Barcode when it has one, else under its ProductName, else under a freshly
\* generated token: a row with neither is saved too. (Violated: the token cannot be
\* generated, the request of a row with neither key is answered 500 and saves nothing.)
C35_IdentifierOrToken ==
    [][ApproveStep =>
          /\ response'.statusCode = 200
          /\ \A k \in 1..Len(ApproveItems(request'.body.products)) :
                SavedUnderItsKey(ApproveItems(request'.body.products)[k], products, products', clock)]_vars

\* a request with a keyed row and a keyless row was answered 500 and stored neither
C35_KeylessRowAnswered500 ==
    /\ request.handler = "approve_save" /\ request.store_up
    /\ "products" \in DOMAIN request.body /\ Len(request.body.products) = 2
    /\ Keyless(request.body.products[2])
    /\ response.statusCode = 500
    /\ products = {}

\* a delete request for the identifier of a stored product has been answered, the store up
DeleteOfStored ==
    /\ request'.handler = "delete_product" /\ clock' # clock /\ request'.store_up
    /\ \E d \in products : PathParam(d._id) = request'.productId

\* the products whose identifier reads as the path parameter
Named(coll, product_id) == {d \in coll : PathParam(d._id) = product_id}

\* the delete just answered repeats the one answered 200 before it
SecondDelete ==
    /\ request.handler = "delete_product" /\ response.statusCode = 200
    /\ request'.handler = "delete_product" /\ clock' # clock /\ request'.store_up
    /\ request'.productId = request.productId

\* a product whose identifier is a text is deleted by its identifier: 200, exactly that
\* product is removed, and the same delete again is answered 404 and changes nothing
C34_TextIdentifierDeleted ==
    [][/\ (DeleteOfStored /\ \E d \in Named(products, request'.productId) : d._id.t = "str") =>
              /\ response'.statusCode = 200
              /\ products' = products \ Named(products, request'.productId)
              /\ Cardinality(Named(products, request'.productId)) = 1
       /\ SecondDelete => (response'.statusCode = 404 /\ products' = products)]_vars

\* C34: for every product the save of approved rows stored, whatever its Barcode or
\* ProductName (an all-digit barcode included), a delete request with the identifier of
\* the product as path parameter is answered 200 and removes exactly that product, and
\* the same delete again is answered 404 and changes nothing. (Violated: the product of
\* an all-digit barcode is stored under a number, which the text of the path never equals.)
C34_DeleteByIdentifier ==
    [][/\ DeleteOfStored =>
              /\ response'.statusCode = 200
              /\ products' = products \ Named(products, request'.productId)
              /\ Cardinality(Named(products, request'.productId)) = 1
       /\ SecondDelete => (response'.statusCode = 404 /\ products' = products)]_vars

\* the product of barcode 007 is stored under the number 7; the delete of 7 was answered
\* 404 and the product is still there
C34_DigitBarcodeNotDeleted ==
    /\ request.handler = "delete_product" /\ request.store_up /\ request.productId = <<"7">>
    /\ response.statusCode = 404
    /\ \E d \in products : d._id = PyInt(7) /\ d.Barcode = PyInt(7)

\* the status, the result key and the result a single delivery of the message leaves, with
\* the store and the buckets up
SingleDelivery(r, attrs) ==
    LET object == GetObject(Get(r.payload, "s3Bucket"), GetKey(r.payload))
        job_id == Get(r.payload, "jobId")
    IN IF object.kind \in {"client_error", "not_utf8", "csv_error"}
       THEN [status |-> "FAILED", resultS3Key |-> <<>>, result |-> Logical(<<>>)]
       ELSE [status |-> ProcessCsv(object.headers, object.rows, attrs).final_job_status, resultS3Key |-> ResultKey(job_id),
             result |-> Logical(ProcessCsv(object.headers, object.rows, attrs))]

\* what is on record for the job: status, result key, result
OnRecord(js, rs, job_id) ==
    [status |-> StatusOf(JobOf(js, job_id)),
     resultS3Key |-> IF job_id \in DOMAIN js /\ "resultS3Key" \in DOMAIN js[job_id] THEN js[job_id].resultS3Key ELSE <<>>,
     result |-> Logical(ArtOf(rs, job_id))]

\* a single delivery with nothing failing leaves what SingleDelivery says
C33_SingleDeliveryOutcome ==
    (Finished /\ used = 1 /\ faults = 0 /\ bucketSet /\ last.rec.body = "json" /\ last.path \in {"done", "csv_error", "decode", "download"}) =>
        OnRecord(jobs, results, LastJob) = SingleDelivery(last.rec, attrDefs)

\* both invocations have run and ended
BothEnded == call # NoCall /\ pc = "idle" /\ call.pc = "idle" /\ outcome \in {"returned", "raised"} /\ call.outcome \in {"returned", "raised"}

\* C33: when two invocations have processed the same message, their store and blob
\* operations interleaved in any order and none of them failing, the job record has the
\* terminal status and the resultS3Key a single delivery leaves, it is the only record,
\* and the result stored under the result key of the job is the only object of the job
\* and holds what a single delivery stores.
C33_DuplicatesConverge ==
    BothEnded =>
        /\ last.rec = call.last.rec
        /\ OnRecord(jobs, results, LastJob) = SingleDelivery(last.rec, attrDefs)
        /\ DOMAIN jobs = {LastJob}
        /\ DOMAIN results \subseteq {ResultKey(LastJob)}

\* the result on record was computed by one invocation before the other logged its
\* PROCESSING status, and put after it: the two invocations overlapped and the job is completed
C33_Witness ==
    /\ BothEnded
    /\ jobs[LastJob].status = "COMPLETED"
    /\ results[ResultKey(LastJob)].processingTimestamp < jobs[LastJob].processingStartedAt
====
